---- MODULE Spec2Model ----
(***************************************************************************)
(* First Dollar MCP server: the Streamable HTTP server (src/server/index.ts *)
(* with src/server/auth.ts) and the stdio server (src/server/stdio.ts).     *)
(*                                                                         *)
(* Node runs one handler at a time up to its next suspension on I/O, so an *)
(* action below is one such run: from the arrival of a request (or of an   *)
(* awaited result) to the next await on the network or on the transport.   *)
(***************************************************************************)
EXTENDS Integers, Sequences, FiniteSets, TLC

VARIABLES
    transports,            \* index.ts:36  session id -> transport
    sessionTokens,         \* index.ts:37  session id -> token
    sessionAuthMethods,    \* index.ts:38  session id -> 'bearer' | 'api-key'
    sessionEndpointTypes,  \* index.ts:39  session id -> 'partner' | 'manager'
    transportObjs,         \* every StreamableHTTPServerTransport constructed so far
    tokenCache,            \* auth.ts:59   api key -> CachedToken
    now,                   \* Date.now()
    ticks,                 \* how often the clock has advanced
    handler,               \* per request slot: the handler's position and locals
    nReq,                  \* requests received so far
    cur,                   \* the handler that ran last, as its run left it
    lastOk,                \* api key -> when its last successful exchange settled
    stdioPc,               \* stdio.ts main(): position
    stdinListener,         \* stdio.ts: who listens to process.stdin 'data'
    stdinBuffer,           \* stdio.ts:113
    arrived,               \* every chunk written to stdin, in order
    delivered,             \* chunks handed to the transport's _ondata, in order
    stdioToken,            \* stdio.ts:118 tokenResult.token
    exitCode,              \* process.exit status of the stdio server
    shutdownPc,            \* index.ts:392-409 SIGINT handler: position
    shutdownEntries,       \* index.ts:395 Object.entries(transports), as taken on the signal
    shutdownTodo,          \* index.ts:395 the entries the loop has not closed yet
    shutdownVisited,       \* the sessions the loop has called close() for, in order
    shutdownFailed,        \* the sessions whose close() the loop saw reject
    httpExitCode,          \* process.exit status of the HTTP server
    toolPc,                \* createToolHandler's handler: position
    toolCall,              \* the tool call in progress
    toolResult             \* what the handler returned

httpVars == <<transports, sessionTokens, sessionAuthMethods, sessionEndpointTypes,
              transportObjs, tokenCache, now, ticks, handler, nReq, cur, lastOk>>
stdioVars == <<stdioPc, stdinListener, stdinBuffer, arrived, delivered, stdioToken, exitCode>>
shutdownVars == <<shutdownPc, shutdownEntries, shutdownTodo, shutdownVisited,
                  shutdownFailed, httpExitCode>>
toolVars == <<toolPc, toolCall, toolResult>>
vars == <<httpVars, stdioVars, shutdownVars, toolVars>>

---------------------------------------------------------------------------
(* Bounds of the model *)
MaxRequests == 2
MaxSessions == 2
MaxTicks == 1
MaxChunks == 3
MaxErrors == 2
MaxOptional == 1

(* Small input sets *)
Slots == 1..2
EndpointTypes == {"partner", "manager"}
NoKey == "none"
ValidKeys == {"keyA", "keyB"}
ApiKeys == ValidKeys \cup {"badKey"}
NoBearer == "none"
Bearers == {"bearer1"}
\* the Authorization header: absent, or a scheme and what follows it
NoAuthorization == <<>>
Authorizations == {<<"Bearer", b>> : b \in Bearers} \cup {<<"Bearer", "">>, <<"Basic", "bearer1">>}
\* the pre-issued token a Bearer header carries
BearerToken(b) == <<b>>
\* the idToken the exchange endpoint issues for a key at a time: a token
\* issued later is another token
IdToken(apiKey, t) == <<apiKey, t>>
NoSession == 0 - 1
NoTransport == 0 - 1
NoToken == <<>>
Bodies == {"initialize", "tools/call"}
\* the credential headers a request carries: X-API-Key and Authorization
KeyHeaders == {[apiKey |-> k, authorization |-> NoAuthorization] : k \in ApiKeys \cup {NoKey, ""}}
Headers == KeyHeaders \cup {[apiKey |-> NoKey, authorization |-> a] : a \in Authorizations}
SessionIds == 1..MaxSessions
Chunks == {"c1", "c2", "c3"}

\* auth.ts:62
TOKEN_CACHE_TTL_MS == 55 * 60 * 1000
TickSteps == {TOKEN_CACHE_TTL_MS - 1, TOKEN_CACHE_TTL_MS}

---------------------------------------------------------------------------
(* The HTTP server: authentication (auth.ts) *)

\* auth.ts:44-50 extractApiKey: the X-API-Key header, or null
extractApiKey(hdr) == IF hdr.apiKey = "" THEN NoKey ELSE hdr.apiKey

\* auth.ts:33-39 extractBearerToken: the token after 'Bearer ', or null
extractBearerToken(hdr) ==
    IF hdr.authorization = NoAuthorization \/ hdr.authorization[1] # "Bearer"
    THEN NoBearer
    ELSE hdr.authorization[2]

\* a cache that still serves an entry at the very instant it expires
CacheFreshAtExpiry(cache, apiKey, t) ==
    apiKey \in DOMAIN cache /\ cache[apiKey].expiresAt >= t

\* auth.ts:74-75: cached && cached.expiresAt > Date.now()
CacheFresh(cache, apiKey, t) ==
    apiKey \in DOMAIN cache /\ cache[apiKey].expiresAt > t

\* a cache whose entries are stored already expired
CacheSetExpired(cache, apiKey, idToken, t) ==
    [k \in DOMAIN cache \cup {apiKey} |->
        IF k = apiKey
        THEN [token |-> idToken, partnerCode |-> apiKey, expiresAt |-> t]
        ELSE cache[k]]

\* The lifetime of the token the upstream issues for a key, which its answer
\* may declare: one hour (the comment of auth.ts:61), or half an hour.  The
\* answer exchangeApiKeyForToken reads has idToken and partnerCode (auth.ts:95).
UpstreamLifetime(apiKey) == IF apiKey = "keyB" THEN 30 * 60 * 1000 ELSE 60 * 60 * 1000

\* the margin that takes a one-hour lifetime to the 55 minutes of auth.ts:62
SafetyMargin == 60 * 60 * 1000 - TOKEN_CACHE_TTL_MS

Min(a, b) == IF a <= b THEN a ELSE b

\* a cache whose entries expire with the upstream token, less the margin,
\* and after TOKEN_CACHE_TTL_MS at the latest
CacheSetWithinLifetime(cache, apiKey, idToken, t) ==
    [k \in DOMAIN cache \cup {apiKey} |->
        IF k = apiKey
        THEN [token |-> idToken, partnerCode |-> apiKey,
              expiresAt |-> t + Min(UpstreamLifetime(apiKey) - SafetyMargin, TOKEN_CACHE_TTL_MS)]
        ELSE cache[k]]

\* auth.ts:103-107 tokenCache.set(apiKey, {token, partnerCode, expiresAt: Date.now() + TTL})
CacheSet(cache, apiKey, idToken, t) ==
    [k \in DOMAIN cache \cup {apiKey} |->
        IF k = apiKey
        THEN [token |-> idToken, partnerCode |-> apiKey, expiresAt |-> t + TOKEN_CACHE_TTL_MS]
        ELSE cache[k]]

\* The outcomes of the fetch of auth.ts:81-100.  Only an accepted key can get
\* a complete 2xx answer; any call can fail on the way.
ExchangeOutcomes(apiKey) ==
    IF apiKey \in ValidKeys
    THEN {"ok", "non2xx", "networkError", "missingFields"}
    ELSE {"non2xx", "networkError"}

AuthOk(tok, m) == [kind |-> "ok", code |-> 0, message |-> <<>>, token |-> tok, method |-> m]
AuthErr(c, msg) == [kind |-> "error", code |-> c, message |-> msg, token |-> NoToken, method |-> "none"]
AuthPending == [kind |-> "pending", code |-> 0, message |-> <<>>, token |-> NoToken, method |-> "none"]

\* auth.ts:123-147 authenticateApiKeyRequest with auth.ts:70-78, up to the fetch
authenticateApiKeyRequest(hdr) ==
    IF extractApiKey(hdr) = NoKey
    THEN AuthErr(-32000, <<"Unauthorized: X-API-Key header required for Partner API">>)
    ELSE IF CacheFresh(tokenCache, extractApiKey(hdr), now)
         THEN AuthOk(tokenCache[extractApiKey(hdr)].token, "api-key")
         ELSE AuthPending

\* auth.ts:155-170 authenticateBearerRequest
authenticateBearerRequest(hdr) ==
    IF extractBearerToken(hdr) \in {NoBearer, ""}
    THEN AuthErr(-32000, <<"Unauthorized: Bearer token required for Manager API">>)
    ELSE AuthOk(BearerToken(extractBearerToken(hdr)), "bearer")

\* index.ts:315-318, 327-330: the authenticateFn each path is built with
authenticateFn(e, hdr) ==
    IF e = "partner" THEN authenticateApiKeyRequest(hdr)
    ELSE authenticateBearerRequest(hdr)

\* auth.ts:217-219
isAuthError(result) == result.kind = "error"

\* an authentication whose error names the cause of the failure
ExchangeResultRevealing(outcome, idToken) ==
    IF outcome = "ok" THEN AuthOk(idToken, "api-key")
    ELSE AuthErr(-32000, <<"Invalid API key", outcome>>)

\* auth.ts:90-114 and 134-146: what the exchange's answer makes of the attempt
ExchangeResult(outcome, idToken) ==
    IF outcome = "ok" THEN AuthOk(idToken, "api-key")
    ELSE AuthErr(-32000, <<"Invalid API key">>)

---------------------------------------------------------------------------
(* The HTTP server: request slots *)

IdleHandler ==
    [pc |-> "idle", method |-> "none", endpointType |-> "none",
     sessionId |-> NoSession, body |-> "none", apiKey |-> NoKey,
     authError |-> FALSE, token |-> NoToken, authMethod |-> "none",
     transport |-> NoTransport,
     status |-> 0, code |-> 0, message |-> <<>>,
     exchanged |-> FALSE, exchangedAt |-> 0,
     dispatched |-> NoTransport, graphqlToken |-> NoToken]

\* The handler of a request as it starts: the method and path it is registered
\* for (index.ts:315-332), the mcp-session-id header (index.ts:95, 207, 259) and
\* the body.  The credential headers are read by authenticateFn alone.
NewRequest(m, e, sid, b) ==
    [IdleHandler EXCEPT !.method = m, !.endpointType = e, !.sessionId = sid, !.body = b]

\* res.status(s).json({jsonrpc, error: {code, message}, id: null}); return
Respond(h, s, c, msg) ==
    [h EXCEPT !.pc = "done", !.status = s, !.code = c, !.message = msg]

\* sessionEndpointTypes[sessionId], a missing key reading as undefined
EndpointTypeOf(sid) ==
    IF sid \in DOMAIN sessionEndpointTypes THEN sessionEndpointTypes[sid] ELSE "undefined"

\* index.ts:124, 227, 279
CrossEndpointMessage(sid, e) ==
    <<"Session belongs to", EndpointTypeOf(sid), "endpoint, not", e>>

\* a delete that leaves the entry in place
DeleteKeepsEntry(map, sid) == map

\* delete map[sid]
Delete(map, sid) == [k \in DOMAIN map \ {sid} |-> map[k]]

\* map[sid] = v
Put(map, sid, v) == [k \in DOMAIN map \cup {sid} |-> IF k = sid THEN v ELSE map[k]]

\* randomUUID() (index.ts:135): an id no transport has had
NewSessionId == 1 + Cardinality({t \in DOMAIN transportObjs : transportObjs[t].sessionId # NoSession})

NewTransportId == 1 + Cardinality(DOMAIN transportObjs)

\* a handler that builds a transport for every request it accepts
RouteNewTransport(h) ==
    IF h.sessionId # NoSession /\ h.sessionId \in DOMAIN transports
    THEN IF EndpointTypeOf(h.sessionId) # h.endpointType
         THEN Respond(h, 400, -32000, CrossEndpointMessage(h.sessionId, h.endpointType))
         ELSE [h EXCEPT !.pc = "handling", !.transport = NewTransportId]
    ELSE IF h.sessionId = NoSession /\ h.body = "initialize"
    THEN [h EXCEPT !.pc = "handling", !.transport = NewTransportId]
    ELSE IF h.sessionId # NoSession
    THEN Respond(h, 400, -32000, <<"Invalid or expired session">>)
    ELSE Respond(h, 400, -32600, <<"Invalid request: session ID required or initialize first">>)

\* a handler that does not look at the endpoint type a session was created under
RouteAnyEndpoint(h) ==
    IF h.sessionId # NoSession /\ h.sessionId \in DOMAIN transports
    THEN [h EXCEPT !.pc = "handling", !.transport = transports[h.sessionId],
                   !.dispatched = transports[h.sessionId]]
    ELSE IF h.sessionId = NoSession /\ h.body = "initialize"
    THEN [h EXCEPT !.pc = "handling", !.transport = NewTransportId]
    ELSE IF h.sessionId # NoSession
    THEN Respond(h, 400, -32000, <<"Invalid or expired session">>)
    ELSE Respond(h, 400, -32600, <<"Invalid request: session ID required or initialize first">>)

\* a handler that serves a session only to the credential it was opened with
RouteSessionCredential(h) ==
    IF h.sessionId # NoSession /\ h.sessionId \in DOMAIN transports
    THEN IF EndpointTypeOf(h.sessionId) # h.endpointType
         THEN Respond(h, 400, -32000, CrossEndpointMessage(h.sessionId, h.endpointType))
         ELSE IF sessionTokens[h.sessionId] # h.token
         THEN Respond(h, 401, -32000, <<"Unauthorized">>)
         ELSE [h EXCEPT !.pc = "handling", !.transport = transports[h.sessionId],
                        !.dispatched = transports[h.sessionId]]
    ELSE IF h.sessionId = NoSession /\ h.body = "initialize"
    THEN [h EXCEPT !.pc = "handling", !.transport = NewTransportId]
    ELSE IF h.sessionId # NoSession
    THEN Respond(h, 400, -32000, <<"Invalid or expired session">>)
    ELSE Respond(h, 400, -32600, <<"Invalid request: session ID required or initialize first">>)

\* a handler that opens a session for any initialize request, whatever
\* session id it carries
RouteInitializeAnyId(h) ==
    IF h.sessionId # NoSession /\ h.sessionId \in DOMAIN transports
    THEN IF EndpointTypeOf(h.sessionId) # h.endpointType
         THEN Respond(h, 400, -32000, CrossEndpointMessage(h.sessionId, h.endpointType))
         ELSE [h EXCEPT !.pc = "handling", !.transport = transports[h.sessionId],
                        !.dispatched = transports[h.sessionId]]
    ELSE IF h.body = "initialize"
    THEN [h EXCEPT !.pc = "handling", !.transport = NewTransportId]
    ELSE IF h.sessionId # NoSession
    THEN Respond(h, 400, -32000, <<"Invalid or expired session">>)
    ELSE Respond(h, 400, -32600, <<"Invalid request: session ID required or initialize first">>)

\* a handler that opens a session for any request without session id
RouteAnyBodyInitializes(h) ==
    IF h.sessionId # NoSession /\ h.sessionId \in DOMAIN transports
    THEN IF EndpointTypeOf(h.sessionId) # h.endpointType
         THEN Respond(h, 400, -32000, CrossEndpointMessage(h.sessionId, h.endpointType))
         ELSE [h EXCEPT !.pc = "handling", !.transport = transports[h.sessionId],
                        !.dispatched = transports[h.sessionId]]
    ELSE IF h.sessionId = NoSession
    THEN [h EXCEPT !.pc = "handling", !.transport = NewTransportId]
    ELSE Respond(h, 400, -32000, <<"Invalid or expired session">>)

\* a handler that answers a request without session id and without
\* initialize with the code of the session errors
RouteMalformedAsSessionError(h) ==
    IF h.sessionId # NoSession /\ h.sessionId \in DOMAIN transports
    THEN IF EndpointTypeOf(h.sessionId) # h.endpointType
         THEN Respond(h, 400, -32000, CrossEndpointMessage(h.sessionId, h.endpointType))
         ELSE [h EXCEPT !.pc = "handling", !.transport = transports[h.sessionId],
                        !.dispatched = transports[h.sessionId]]
    ELSE IF h.sessionId = NoSession /\ h.body = "initialize"
    THEN [h EXCEPT !.pc = "handling", !.transport = NewTransportId]
    ELSE IF h.sessionId # NoSession
    THEN Respond(h, 400, -32000, <<"Invalid or expired session">>)
    ELSE Respond(h, 400, -32000, <<"Invalid request: session ID required or initialize first">>)

\* index.ts:117-183: the branch a POST takes once authenticated
Route(h) ==
    IF h.sessionId # NoSession /\ h.sessionId \in DOMAIN transports
    THEN IF EndpointTypeOf(h.sessionId) # h.endpointType
         THEN Respond(h, 400, -32000, CrossEndpointMessage(h.sessionId, h.endpointType))
         ELSE [h EXCEPT !.pc = "handling", !.transport = transports[h.sessionId],
                        !.dispatched = transports[h.sessionId]]
    ELSE IF h.sessionId = NoSession /\ h.body = "initialize"
    THEN [h EXCEPT !.pc = "handling", !.transport = NewTransportId]
    ELSE IF h.sessionId # NoSession
    THEN Respond(h, 400, -32000, <<"Invalid or expired session">>)
    ELSE Respond(h, 400, -32600, <<"Invalid request: session ID required or initialize first">>)

\* a handler that goes on after answering 401
PostContinueNoReturn(h, authResult) ==
    Route([h EXCEPT !.authError = isAuthError(authResult),
                    !.token = authResult.token, !.authMethod = authResult.method])

\* a handler that takes a known session id in place of a credential
PostContinueSessionTrusted(h, authResult) ==
    IF isAuthError(authResult) /\ h.sessionId \notin DOMAIN transports
    THEN Respond([h EXCEPT !.authError = TRUE], 401, authResult.code, authResult.message)
    ELSE Route([h EXCEPT !.token = authResult.token, !.authMethod = authResult.method])

\* index.ts:98-112: the handler after `await authenticateFn(req)`
PostContinue(h, authResult) ==
    IF isAuthError(authResult)
    THEN Respond([h EXCEPT !.authError = TRUE], 401, authResult.code, authResult.message)
    ELSE Route([h EXCEPT !.token = authResult.token, !.authMethod = authResult.method])

\* index.ts:134-161: new StreamableHTTPServerTransport(...) and createServerFn(token),
\* whose tool handlers close over the token (tools.ts:328-338)
NewTransport(h) ==
    [token |-> h.token, sessionId |-> NoSession, closeCalls |-> 0]

\* the transports after the run that left the handler as h
ObjsAfter(h) ==
    IF h.pc = "handling" /\ h.transport \notin DOMAIN transportObjs
    THEN Put(transportObjs, h.transport, NewTransport(h))
    ELSE transportObjs

\* initialize requests still on their way to constructing a transport
PendingInits ==
    Cardinality({s \in Slots : handler[s].pc = "fetching"
                                /\ handler[s].sessionId = NoSession
                                /\ handler[s].body = "initialize"})

\* the slot the next request takes
FreeSlot == CHOOSE s \in Slots :
    handler[s].pc = "idle" /\ \A s2 \in Slots : s2 < s => handler[s2].pc # "idle"

\* what is observed of a handler's run: the request, and what became of it
Seen(h) ==
    [pc |-> h.pc, method |-> h.method, endpointType |-> h.endpointType,
     sessionId |-> h.sessionId, body |-> h.body, apiKey |-> h.apiKey,
     authError |-> h.authError, authMethod |-> h.authMethod, exchanged |-> h.exchanged,
     status |-> h.status, code |-> h.code, message |-> h.message,
     dispatched |-> h.dispatched, graphqlToken |-> h.graphqlToken]

\* the handler of slot s has run and is now h: an answered request leaves the slot
Settle(s, h) ==
    /\ handler' = [handler EXCEPT ![s] = IF h.pc = "done" THEN IdleHandler ELSE h]
    /\ cur' = Seen(h)

---------------------------------------------------------------------------
(* The HTTP server: actions *)

\* some slot is free for the next request
CanReceive ==
    /\ shutdownPc # "exited"
    /\ nReq < MaxRequests
    /\ \E s \in Slots : handler[s].pc = "idle"

\* index.ts:94-185 createMcpPostHandler, from the arrival of the request to the
\* handler's first await on I/O: the exchange's fetch (auth.ts:81) or the transport.
ReceivePost(e, sid, hdr, b) ==
    /\ CanReceive
    /\ (sid = NoSession /\ b = "initialize") => NewTransportId + PendingInits <= MaxSessions
    /\ LET r == [NewRequest("POST", e, sid, b) EXCEPT
                    !.apiKey = IF e = "partner" THEN extractApiKey(hdr) ELSE NoKey]
           a == authenticateFn(e, hdr)
           h == IF a.kind = "pending"
                THEN [r EXCEPT !.pc = "fetching", !.exchanged = TRUE, !.exchangedAt = now]
                ELSE PostContinue(r, a)
       IN /\ Settle(FreeSlot, h)
          /\ transportObjs' = ObjsAfter(h)
    /\ nReq' = nReq + 1
    /\ UNCHANGED <<transports, sessionTokens, sessionAuthMethods, sessionEndpointTypes,
                   tokenCache, now, ticks, lastOk, stdioVars, shutdownVars, toolVars>>

\* auth.ts:81-114: the exchange's fetch settles; then index.ts:100-185
\* an exchange that drops the key's entry when the call fails
CacheAfterExchangeEvicting(cache, apiKey, outcome, t) ==
    IF outcome = "ok"
    THEN CacheSet(cache, apiKey, IdToken(apiKey, t), t)
    ELSE [k \in DOMAIN cache \ {apiKey} |-> cache[k]]

\* auth.ts:90-114: the cache is written on the one path that has a complete
\* answer (auth.ts:103-107); the three failing paths return null before or
\* without touching it
CacheAfterExchange(cache, apiKey, outcome, t) ==
    IF outcome = "ok"
    THEN CacheSet(cache, apiKey, IdToken(apiKey, t), t)
    ELSE cache

ExchangeResolve(s, outcome) ==
    /\ shutdownPc # "exited"
    /\ handler[s].pc = "fetching"
    /\ outcome \in ExchangeOutcomes(handler[s].apiKey)
    /\ LET a == ExchangeResult(outcome, IdToken(handler[s].apiKey, now))
           h == PostContinue(handler[s], a)
       IN /\ Settle(s, h)
          /\ transportObjs' = ObjsAfter(h)
    /\ tokenCache' = CacheAfterExchange(tokenCache, handler[s].apiKey, outcome, now)
    /\ IF outcome = "ok"
       THEN lastOk' = Put(lastOk, handler[s].apiKey, now)
       ELSE UNCHANGED lastOk
    /\ UNCHANGED <<transports, sessionTokens, sessionAuthMethods, sessionEndpointTypes,
                   now, ticks, nReq, stdioVars, shutdownVars, toolVars>>

\* a registration that leaves the map with the new entry alone
RegisterAlone(map, sid, v) == [k \in {sid} |-> v]

\* index.ts:137-145 onsessioninitialized(newSessionId): map[newSessionId] = v
Register(map, sid, v) == Put(map, sid, v)

\* tool handlers that take the key's latest token from the cache
ToolTokenFromCache(o) ==
    IF o.token # NoToken /\ o.token[1] \in DOMAIN tokenCache
    THEN tokenCache[o.token[1]].token
    ELSE o.token

\* tools.ts:328-338 createToolHandler: the token the tool handlers of a
\* transport's server call upstream with
ToolToken(o) == o.token

\* index.ts:162 and 185: server.connect(transport) and transport.handleRequest run.
\* A transport without a session id handles the initialize request: it takes a
\* new id and calls onsessioninitialized.  A tools/call request reaches the tool
\* handler, which calls upstream with the token it closed over.
PostHandle(s, throws) ==
    /\ shutdownPc # "exited"
    /\ handler[s].pc = "handling"
    /\ LET h == handler[s]
           t == h.transport
           o == transportObjs[t]
           sid == NewSessionId
       IN IF throws
          THEN \* index.ts:186-197
               /\ Settle(s, Respond(h, 500, -32603, <<"Internal server error">>))
               /\ UNCHANGED <<transports, sessionTokens, sessionAuthMethods,
                              sessionEndpointTypes, transportObjs>>
          ELSE IF o.sessionId = NoSession
          THEN /\ transports' = Register(transports, sid, t)
               /\ sessionTokens' = Register(sessionTokens, sid, h.token)
               /\ sessionAuthMethods' = Register(sessionAuthMethods, sid, h.authMethod)
               /\ sessionEndpointTypes' = Register(sessionEndpointTypes, sid, h.endpointType)
               /\ transportObjs' = [transportObjs EXCEPT ![t].sessionId = sid]
               /\ Settle(s, Respond([h EXCEPT !.dispatched = t], 200, 0, <<"result">>))
          ELSE /\ Settle(s, Respond([h EXCEPT !.dispatched = t,
                                              !.graphqlToken =
                                                  IF h.body = "tools/call" THEN ToolToken(o)
                                                  ELSE NoToken],
                                    200, 0, <<"result">>))
               /\ UNCHANGED <<transports, sessionTokens, sessionAuthMethods,
                              sessionEndpointTypes, transportObjs>>
    /\ UNCHANGED <<tokenCache, now, ticks, nReq, lastOk, stdioVars, shutdownVars, toolVars>>

\* index.ts:205-252 createMcpGetHandler
ReceiveGet(e, sid, hdr, throws) ==
    /\ CanReceive
    /\ LET r == NewRequest("GET", e, sid, "none")
       IN Settle(FreeSlot,
            IF sid = NoSession \/ sid \notin DOMAIN transports
            THEN Respond(r, 400, -32000, <<"Invalid or missing session ID">>)
            ELSE IF EndpointTypeOf(sid) # e
            THEN Respond(r, 400, -32000, CrossEndpointMessage(sid, e))
            ELSE IF throws
            THEN Respond([r EXCEPT !.transport = transports[sid], !.dispatched = transports[sid]],
                         500, -32603, <<"Internal server error">>)
            ELSE Respond([r EXCEPT !.transport = transports[sid], !.dispatched = transports[sid]],
                         200, 0, <<"event-stream">>))
    /\ nReq' = nReq + 1
    /\ UNCHANGED <<transports, sessionTokens, sessionAuthMethods, sessionEndpointTypes,
                   transportObjs, tokenCache, now, ticks, lastOk, stdioVars, shutdownVars, toolVars>>

\* a handler that closes the transport last known under the id when the
\* registry no longer holds it
DeleteRouteStale(r) ==
    IF r.sessionId = NoSession \/ r.sessionId \notin DOMAIN transports
    THEN IF \E t \in DOMAIN transportObjs : transportObjs[t].sessionId = r.sessionId
         THEN [r EXCEPT !.pc = "closing",
                        !.transport = CHOOSE t \in DOMAIN transportObjs :
                                          transportObjs[t].sessionId = r.sessionId]
         ELSE Respond(r, 404, -32000, <<"Session not found">>)
    ELSE IF EndpointTypeOf(r.sessionId) # r.endpointType
    THEN Respond(r, 400, -32000, CrossEndpointMessage(r.sessionId, r.endpointType))
    ELSE [r EXCEPT !.pc = "closing", !.transport = transports[r.sessionId]]

\* a handler that answers not-found when another handler is already closing
\* the session's transport
DeleteRouteOnce(r) ==
    IF r.sessionId = NoSession \/ r.sessionId \notin DOMAIN transports
       \/ \E s \in Slots : handler[s].pc = "closing" /\ handler[s].sessionId = r.sessionId
    THEN Respond(r, 404, -32000, <<"Session not found">>)
    ELSE IF EndpointTypeOf(r.sessionId) # r.endpointType
    THEN Respond(r, 400, -32000, CrossEndpointMessage(r.sessionId, r.endpointType))
    ELSE [r EXCEPT !.pc = "closing", !.transport = transports[r.sessionId]]

\* index.ts:259-286: the branch a DELETE takes
DeleteRoute(r) ==
    IF r.sessionId = NoSession \/ r.sessionId \notin DOMAIN transports
    THEN Respond(r, 404, -32000, <<"Session not found">>)
    ELSE IF EndpointTypeOf(r.sessionId) # r.endpointType
    THEN Respond(r, 400, -32000, CrossEndpointMessage(r.sessionId, r.endpointType))
    ELSE [r EXCEPT !.pc = "closing", !.transport = transports[r.sessionId]]

\* a DELETE handler that authenticates the request as the POST handler does,
\* and answers 401 to a request without the endpoint's credential
ReceiveDeleteAuthenticated(e, sid, hdr) ==
    /\ CanReceive
    /\ LET r == NewRequest("DELETE", e, sid, "none")
           a == authenticateFn(e, hdr)
           h == IF a.kind = "error"
                THEN Respond([r EXCEPT !.authError = TRUE], 401, a.code, a.message)
                ELSE DeleteRoute(r)
       IN /\ Settle(FreeSlot, h)
          /\ transportObjs' = IF h.pc = "closing"
                              THEN [transportObjs EXCEPT ![h.transport].closeCalls = @ + 1]
                              ELSE transportObjs
    /\ nReq' = nReq + 1
    /\ UNCHANGED <<transports, sessionTokens, sessionAuthMethods, sessionEndpointTypes,
                   tokenCache, now, ticks, lastOk, stdioVars, shutdownVars, toolVars>>

\* index.ts:257-289 createMcpDeleteHandler up to `await transport.close()`
ReceiveDelete(e, sid, hdr) ==
    /\ CanReceive
    /\ LET h == DeleteRoute(NewRequest("DELETE", e, sid, "none"))
       IN /\ Settle(FreeSlot, h)
          /\ transportObjs' = IF h.pc = "closing"
                              THEN [transportObjs EXCEPT ![h.transport].closeCalls = @ + 1]
                              ELSE transportObjs
    /\ nReq' = nReq + 1
    /\ UNCHANGED <<transports, sessionTokens, sessionAuthMethods, sessionEndpointTypes,
                   tokenCache, now, ticks, lastOk, stdioVars, shutdownVars, toolVars>>

\* a handler that removes the session's entries whether or not close() resolved
DeleteResolveRemovesAnyway(s, ok) ==
    /\ shutdownPc # "exited"
    /\ handler[s].pc = "closing"
    /\ LET h == handler[s]
       IN /\ transports' = Delete(transports, h.sessionId)
          /\ sessionTokens' = Delete(sessionTokens, h.sessionId)
          /\ sessionAuthMethods' = Delete(sessionAuthMethods, h.sessionId)
          /\ sessionEndpointTypes' = Delete(sessionEndpointTypes, h.sessionId)
          /\ IF ok
             THEN Settle(s, Respond(h, 204, 0, <<>>))
             ELSE Settle(s, Respond(h, 500, -32603, <<"Error closing session">>))
    /\ UNCHANGED <<transportObjs, tokenCache, now, ticks, nReq, lastOk,
                   stdioVars, shutdownVars, toolVars>>

\* index.ts:289-306: transport.close() settles
DeleteResolve(s, ok) ==
    /\ shutdownPc # "exited"
    /\ handler[s].pc = "closing"
    /\ LET h == handler[s]
       IN IF ok
          THEN /\ transports' = Delete(transports, h.sessionId)
               /\ sessionTokens' = Delete(sessionTokens, h.sessionId)
               /\ sessionAuthMethods' = Delete(sessionAuthMethods, h.sessionId)
               /\ sessionEndpointTypes' = Delete(sessionEndpointTypes, h.sessionId)
               /\ Settle(s, Respond(h, 204, 0, <<>>))
               /\ UNCHANGED transportObjs
          ELSE /\ Settle(s, Respond(h, 500, -32603, <<"Error closing session">>))
               /\ UNCHANGED <<transports, sessionTokens, sessionAuthMethods,
                              sessionEndpointTypes, transportObjs>>
    /\ UNCHANGED <<tokenCache, now, ticks, nReq, lastOk, stdioVars, shutdownVars, toolVars>>

\* an onclose callback that removes the transport's entry and leaves the
\* session's token, auth method and endpoint type behind
TransportOnCloseTransportOnly(t) ==
    /\ shutdownPc # "exited"
    /\ t \in DOMAIN transportObjs
    /\ LET sid == transportObjs[t].sessionId
       IN /\ sid # NoSession
          /\ sid \in DOMAIN transports
          /\ transports' = Delete(transports, sid)
    /\ UNCHANGED <<sessionTokens, sessionAuthMethods, sessionEndpointTypes,
                   transportObjs, tokenCache, now, ticks, handler, nReq, cur, lastOk,
                   stdioVars, shutdownVars, toolVars>>

\* index.ts:149-158 transport.onclose, called by the transport when it closes.
\* Without a session id (index.ts:151), or with one the maps no longer hold,
\* the callback changes nothing.
TransportOnClose(t) ==
    /\ shutdownPc # "exited"
    /\ t \in DOMAIN transportObjs
    /\ LET sid == transportObjs[t].sessionId
       IN /\ sid # NoSession
          /\ sid \in DOMAIN transports \cup DOMAIN sessionTokens
                     \cup DOMAIN sessionAuthMethods \cup DOMAIN sessionEndpointTypes
          /\ transports' = Delete(transports, sid)
          /\ sessionTokens' = Delete(sessionTokens, sid)
          /\ sessionAuthMethods' = Delete(sessionAuthMethods, sid)
          /\ sessionEndpointTypes' = Delete(sessionEndpointTypes, sid)
    /\ UNCHANGED <<transportObjs, tokenCache, now, ticks, handler, nReq, cur, lastOk, stdioVars, shutdownVars, toolVars>>

\* index.ts:342-343: Object.values(sessionEndpointTypes).filter((t) => t === e).length
SessionsOfType(e) ==
    Cardinality({sid \in DOMAIN sessionEndpointTypes : sessionEndpointTypes[sid] = e})

\* index.ts:341-358 GET /health: the body the handler answers with.  The
\* handler reads the maps and the cache and changes nothing.
Health ==
    [status |-> "healthy",
     sessions |-> [total |-> Cardinality(DOMAIN transports),
                   partner |-> SessionsOfType("partner"),
                   manager |-> SessionsOfType("manager")],
     cachedApiKeys |-> Cardinality(DOMAIN tokenCache)]

\* Date.now() moves on
Tick(d) ==
    /\ ticks < MaxTicks
    /\ now' = now + d
    /\ ticks' = ticks + 1
    /\ UNCHANGED <<transports, sessionTokens, sessionAuthMethods, sessionEndpointTypes,
                   transportObjs, tokenCache, handler, nReq, cur, lastOk, stdioVars, shutdownVars, toolVars>>

---------------------------------------------------------------------------
(* The HTTP server: graceful shutdown (index.ts:392-409) *)

\* Object.entries(map) (index.ts:395): the entries in the order the keys were
\* inserted, which for session ids is the order they were issued in
RECURSIVE Entries(_)
Entries(map) ==
    IF DOMAIN map = {}
    THEN <<>>
    ELSE LET sid == CHOOSE k \in DOMAIN map : \A k2 \in DOMAIN map : k <= k2
         IN <<[sessionId |-> sid, transport |-> map[sid]]>> \o Entries(Delete(map, sid))

\* transport.close() is called (index.ts:397)
CallClose(objs, t) == [objs EXCEPT ![t].closeCalls = @ + 1]

\* index.ts:392-397: the signal arrives; the handler takes the entries and
\* calls close() on the first, or exits at once when there is none
Sigint ==
    /\ shutdownPc = "running"
    /\ shutdownEntries' = Entries(transports)
    /\ IF Entries(transports) = <<>>
       THEN /\ shutdownPc' = "exited"
            /\ httpExitCode' = 0
            /\ UNCHANGED <<shutdownTodo, shutdownVisited, transportObjs>>
       ELSE /\ shutdownPc' = "closing"
            /\ shutdownTodo' = Entries(transports)
            /\ shutdownVisited' = <<Entries(transports)[1].sessionId>>
            /\ transportObjs' = CallClose(transportObjs, Entries(transports)[1].transport)
            /\ UNCHANGED httpExitCode
    /\ UNCHANGED <<transports, sessionTokens, sessionAuthMethods, sessionEndpointTypes,
                   tokenCache, now, ticks, handler, nReq, cur, lastOk, shutdownFailed,
                   stdioVars, toolVars>>

\* a variant of the loop that stays on an entry whose close() rejected
AfterCloseRetry(todo, ok) == IF ok THEN Tail(todo) ELSE todo

\* index.ts:395: the loop goes on to the next entry, whether the body ran
\* to its end (index.ts:397-402) or was left through the catch (index.ts:403-405)
AfterClose(todo, ok) == Tail(todo)

\* index.ts:396-408: the close() the loop awaits settles.  A close that
\* resolved is followed by the four deletes (index.ts:398-401), one that
\* rejected by the log of index.ts:404 alone; the loop then goes on to the
\* next entry, and after the last one the process exits with status 0.
ShutdownCloseResolve(ok) ==
    /\ shutdownPc = "closing"
    /\ LET sid == Head(shutdownTodo).sessionId
           rest == AfterClose(shutdownTodo, ok)
       IN /\ IF ok
             THEN /\ transports' = Delete(transports, sid)
                  /\ sessionTokens' = Delete(sessionTokens, sid)
                  /\ sessionAuthMethods' = Delete(sessionAuthMethods, sid)
                  /\ sessionEndpointTypes' = Delete(sessionEndpointTypes, sid)
                  /\ UNCHANGED shutdownFailed
             ELSE /\ shutdownFailed' = shutdownFailed \cup {sid}
                  /\ UNCHANGED <<transports, sessionTokens, sessionAuthMethods,
                                 sessionEndpointTypes>>
          /\ shutdownTodo' = rest
          /\ IF rest = <<>>
             THEN /\ shutdownPc' = "exited"
                  /\ httpExitCode' = 0
                  /\ UNCHANGED <<shutdownVisited, transportObjs>>
             ELSE /\ shutdownVisited' = Append(shutdownVisited, Head(rest).sessionId)
                  /\ transportObjs' = CallClose(transportObjs, Head(rest).transport)
                  /\ UNCHANGED <<shutdownPc, httpExitCode>>
    /\ UNCHANGED <<tokenCache, now, ticks, handler, nReq, cur, lastOk, shutdownEntries,
                   stdioVars, toolVars>>

---------------------------------------------------------------------------
(* The stdio server (stdio.ts) *)

NoExit == 0 - 1

\* FD_API_KEY as the process may find it: unset (empty), or a string of
\* characters, "a" standing for any character but the colon
EnvKeys == {<<>>, <<"a">>, <<":", "a">>, <<"a", ":">>, <<"a", ":", "a">>}

\* apiKey.indexOf(':') (stdio.ts:43), counting from 1; 0 when there is none
IndexOfColon(k) ==
    IF \E i \in 1..Len(k) : k[i] = ":"
    THEN CHOOSE i \in 1..Len(k) : k[i] = ":" /\ \A j \in 1..(i - 1) : k[j] # ":"
    ELSE 0

\* stdio.ts:43-55: the key splits into a client id and a client secret, neither empty
WellFormedKey(k) ==
    /\ IndexOfColon(k) # 0
    /\ SubSeq(k, 1, IndexOfColon(k) - 1) # <<>>
    /\ SubSeq(k, IndexOfColon(k) + 1, Len(k)) # <<>>

\* stdio.ts:102-118 main(), from the start of the process to the fetch of the
\* token request (stdio.ts:62)
StdioStart(k) ==
    /\ stdioPc = "start"
    /\ IF k = <<>>
       THEN \* stdio.ts:106-109
            /\ stdioPc' = "exited"
            /\ exitCode' = 1
            /\ UNCHANGED stdinListener
       ELSE IF ~WellFormedKey(k)
       THEN \* stdio.ts:44-55 returns null; stdio.ts:119-122
            /\ stdioPc' = "exited"
            /\ exitCode' = 1
            /\ stdinListener' = "bufferData"
       ELSE /\ stdioPc' = "authenticating"
            /\ stdinListener' = "bufferData"
            /\ UNCHANGED exitCode
    /\ UNCHANGED <<stdinBuffer, arrived, delivered, stdioToken, httpVars, shutdownVars, toolVars>>

\* a listener that puts the chunk at the front of the buffer
bufferDataUnshift(buffer, chunk) == <<chunk>> \o buffer

\* stdio.ts:114 bufferData: stdinBuffer.push(chunk)
bufferData(buffer, chunk) == Append(buffer, chunk)

\* a replay that takes the chunks off the end of the buffer
ReplayNewestFirst(out, buffer) ==
    out \o [i \in 1..Len(buffer) |-> buffer[Len(buffer) + 1 - i]]

\* stdio.ts:137-143: every buffered chunk goes to the transport's _ondata, in turn
Replay(out, buffer) == out \o buffer

\* a chunk arrives on stdin and goes to whoever listens to 'data'
StdinData(c) ==
    /\ stdioPc \in {"authenticating", "ready"}
    /\ Len(arrived) < MaxChunks
    /\ arrived' = Append(arrived, c)
    /\ IF stdinListener = "bufferData"
       THEN stdinBuffer' = bufferData(stdinBuffer, c) /\ UNCHANGED delivered
       ELSE IF stdinListener = "transport"
       THEN delivered' = Append(delivered, c) /\ UNCHANGED stdinBuffer
       ELSE \* nobody listens: the chunk is read and dropped
            UNCHANGED <<stdinBuffer, delivered>>
    /\ UNCHANGED <<stdioPc, stdinListener, stdioToken, exitCode, httpVars, shutdownVars, toolVars>>

\* the outcomes of the token request of stdio.ts:62
StdioOutcomes == {"ok", "non2xx", "networkError", "missingFields"}

\* an exchange that hands out a token whatever the token request did
StdioExchangeResultAlwaysToken(outcome) == IdToken("FD_API_KEY", 0)

\* stdio.ts:74-96: the token of the response, or null for a non-2xx
\* status, a response without access_token and a fetch that threw
StdioExchangeResult(outcome) ==
    IF outcome = "ok" THEN IdToken("FD_API_KEY", 0) ELSE NoToken

\* a hand-over that detaches the buffering listener and attaches no other
ListenerDetachedOnly == "none"

\* stdio.ts:132-134: process.stdin.off('data', bufferData) and, in the same
\* run, server.connect(transport), whose start() listens to 'data'
ListenerAfterConnect == "transport"

\* stdio.ts:74-96 and 119-145: the token request settles, and main() runs on.
\* server.connect (stdio.ts:134) attaches the transport's listener and awaits
\* no I/O, so the replay follows it before any further chunk is read.
StdioAuthResolve(outcome) ==
    /\ stdioPc = "authenticating"
    /\ IF StdioExchangeResult(outcome) # NoToken
       THEN /\ stdioToken' = StdioExchangeResult(outcome)
            /\ stdinListener' = ListenerAfterConnect
            /\ delivered' = Replay(delivered, stdinBuffer)
            /\ stdioPc' = "ready"
            /\ UNCHANGED exitCode
       ELSE /\ stdioPc' = "exited"
            /\ exitCode' = 1
            /\ UNCHANGED <<stdioToken, stdinListener, delivered>>
    /\ UNCHANGED <<stdinBuffer, arrived, httpVars, shutdownVars, toolVars>>

NextStdio ==
    \/ \E k \in EnvKeys : StdioStart(k)
    \/ \E c \in Chunks : StdinData(c)
    \/ \E outcome \in StdioOutcomes : StdioAuthResolve(outcome)

---------------------------------------------------------------------------
(* The tool handlers (tools.ts, manager-tools.ts) *)

\* the tools a server registers, by the endpoint type of its session
ToolsOf(e) ==
    IF e = "partner"
    THEN {"list_organizations", "list_individuals", "list_benefits_programs",
          "list_benefit_templates", "create_individual"}
    ELSE {"list_organizations"}

\* no call of a tool handler has been made, or none has returned
NoCall == [tool |-> "none"]

ErrorMessages == {"e1", "e2"}

\* the errors lists an upstream answer can carry, up to MaxErrors entries
RECURSIVE ErrorLists(_)
ErrorLists(n) ==
    IF n = 0 THEN {<<>>}
    ELSE ErrorLists(n - 1) \cup
         {Append(l, [message |-> m]) : l \in {x \in ErrorLists(n - 1) : Len(x) = n - 1},
                                       m \in ErrorMessages}

\* what was thrown, where nothing was
NoThrow == [isError |-> FALSE, message |-> ""]

\* What executeGraphQL (tools.ts:17-32, manager-tools.ts:19-34) comes to:
\* fetch rejects with a TypeError, response.json() rejects with a
\* SyntaxError, or the body decodes: to something that is not an
\* object (null), or to an object with or without an errors field, with or
\* without data, whose data has or lacks the tool's result path.
UpstreamOutcomes ==
    {[kind |-> "throws", error |-> [isError |-> TRUE, message |-> m],
      hasErrors |-> FALSE, errors |-> <<>>, data |-> "undefined"] :
        m \in {"fetch failed", "Unexpected token"}}
    \cup {[kind |-> "null", error |-> NoThrow,
           hasErrors |-> FALSE, errors |-> <<>>, data |-> "undefined"]}
    \cup {[kind |-> "object", error |-> NoThrow,
           hasErrors |-> TRUE, errors |-> l, data |-> d] :
            l \in ErrorLists(MaxErrors), d \in {"undefined", "withPath", "withoutPath"}}
    \cup {[kind |-> "object", error |-> NoThrow,
           hasErrors |-> FALSE, errors |-> <<>>, data |-> d] :
            d \in {"undefined", "withPath", "withoutPath"}}

ToolError(msg) == [threw |-> FALSE, isError |-> TRUE, text |-> <<"Error: ", msg>>]
ToolOk(txt) == [threw |-> FALSE, isError |-> FALSE, text |-> txt]
ToolThrew(msg) == [threw |-> TRUE, isError |-> FALSE, text |-> <<msg>>]

\* tools.ts:361-372, manager-tools.ts:258-269: the catch block
CatchBlock(error) ==
    ToolError(IF error.isError THEN error.message ELSE "Unknown error")

\* JavaScript values as the handlers see them: undefined, strings, numbers,
\* arrays of strings, and objects (a function from its keys to values)
Undefined == [t |-> "undefined", s |-> "", n |-> 0, l |-> <<>>, o |-> <<>>]
Str(x) == [t |-> "string", s |-> x, n |-> 0, l |-> <<>>, o |-> <<>>]
Num(x) == [t |-> "number", s |-> "", n |-> x, l |-> <<>>, o |-> <<>>]
List(x) == [t |-> "array", s |-> "", n |-> 0, l |-> x, o |-> <<>>]
Obj(f) == [t |-> "object", s |-> "", n |-> 0, l |-> <<>>, o |-> f]

\* an object without keys
NoKeys == [k \in {} |-> Undefined]

\* the truthiness of a value: '' and 0 and undefined are falsy, every array
\* and every object truthy
Truthy(v) ==
    \/ v.t \in {"array", "object"}
    \/ v.t = "string" /\ v.s # ""
    \/ v.t = "number" /\ v.n # 0

\* args.k: the value under the key, undefined without the key
Get(args, k) == IF k \in DOMAIN args THEN args[k] ELSE Undefined

\* { k: v }
Key(k, v) == [x \in {k} |-> v]

\* { ...a, ...b }
Spread(a, b) == [k \in DOMAIN a \cup DOMAIN b |-> IF k \in DOMAIN b THEN b[k] ELSE a[k]]

\* ...(args.k ? { k: args.k } : {})
IfTruthy(args, k) == IF Truthy(Get(args, k)) THEN Key(k, Get(args, k)) ELSE NoKeys

\* args.k && args.k.length > 0
NonEmptyList(args, k) == Truthy(Get(args, k)) /\ Len(Get(args, k).l) > 0

\* if (args.k && args.k.length > 0) where.k = args.k
IfNonEmptyList(args, k) == IF NonEmptyList(args, k) THEN Key(k, Get(args, k)) ELSE NoKeys

\* tools.ts:46-47 and the like: if (args.after) result.after = args.after;
\* if (args.first) result.first = args.first
Pagination(args) == Spread(IfTruthy(args, "after"), IfTruthy(args, "first"))

\* if (Object.keys(where).length > 0) result.where = where
IfHasKeys(k, where) == IF DOMAIN where # {} THEN Key(k, Obj(where)) ELSE NoKeys

\* tools.ts:38-92 transformQueryArgs
transformQueryArgs(toolName, args) ==
    IF toolName = "list_organizations"
    THEN Spread(IfHasKeys("where", IfNonEmptyList(args, "ids")), Pagination(args))
    ELSE IF toolName = "get_organization"
    THEN Key("where", Obj(Key("id", Get(args, "id"))))
    ELSE IF toolName = "list_individuals"
    THEN Spread(IfHasKeys("where",
                    Spread(IfNonEmptyList(args, "ids"),
                    Spread(IfNonEmptyList(args, "organizationIds"),
                    Spread(IfNonEmptyList(args, "benefitIds"),
                    Spread(IfNonEmptyList(args, "benefitsProgramIds"),
                           IfNonEmptyList(args, "statuses")))))),
                Pagination(args))
    ELSE IF toolName = "list_benefits_programs"
    THEN Spread(IfHasKeys("where", IfNonEmptyList(args, "organizationIds")), Pagination(args))
    ELSE IF toolName = "list_benefit_templates"
    THEN Pagination(args)
    ELSE args

\* tools.ts:138-144 (create_individual): the name object
IndividualName(args) ==
    Spread(Spread(Key("firstName", Get(args, "firstName")),
                  Key("lastName", Get(args, "lastName"))),
           IfTruthy(args, "middleName"))

\* an address that holds the supplied fields alone
IndividualAddressSuppliedOnly(args) ==
    Spread(IfTruthy(args, "addressLine1"),
    Spread(IfTruthy(args, "addressLine2"),
    Spread(IfTruthy(args, "city"),
    Spread(IfTruthy(args, "state"),
    Spread(IfTruthy(args, "zip"), IfTruthy(args, "country"))))))

\* tools.ts:166-175 (create_individual): the address object, every key of
\* which but addressLine2 is written whatever the argument holds
IndividualAddress(args) ==
    Spread(Key("addressLine1", Get(args, "addressLine1")),
    Spread(IfTruthy(args, "addressLine2"),
    Spread(Key("city", Get(args, "city")),
    Spread(Key("state", Get(args, "state")),
    Spread(Key("zip", Get(args, "zip")),
           Key("country", IF Truthy(Get(args, "country"))
                          THEN Get(args, "country") ELSE Str("US")))))))

\* tools.ts:137-178 (create_individual)
CreateIndividualInput(args) ==
    Spread(Key("name", Obj(IndividualName(args))),
    Spread(IfTruthy(args, "email"),
    Spread(IfTruthy(args, "phoneNumber"),
    Spread(IfTruthy(args, "dateOfBirth"),
    Spread(IfTruthy(args, "tin"),
    Spread(IfTruthy(args, "language"),
    Spread(IfTruthy(args, "externalUserId"),
           IF \/ Truthy(Get(args, "addressLine1")) \/ Truthy(Get(args, "city"))
              \/ Truthy(Get(args, "state")) \/ Truthy(Get(args, "zip"))
           THEN Key("address", Obj(IndividualAddress(args)))
           ELSE NoKeys)))))))

\* tools.ts:101-298 transformArguments, for the tools of ToolsOf
transformArguments(toolName, args) ==
    IF toolName \in {"list_organizations", "get_organization", "list_individuals",
                     "list_benefits_programs", "list_benefit_templates"}
    THEN transformQueryArgs(toolName, args)
    ELSE IF toolName = "create_organization"
    THEN Key("input", Obj(Key("name", Get(args, "name"))))
    ELSE IF toolName = "create_individual"
    THEN Key("input", Obj(CreateIndividualInput(args)))
    ELSE args

\* JSON.stringify (tools.ts:28) of an object: a key whose value is
\* undefined is left out, at every depth
RECURSIVE Serialize(_)
Serialize(v) ==
    IF v.t = "object"
    THEN Obj([k \in {x \in DOMAIN v.o : v.o[x].t # "undefined"} |-> Serialize(v.o[k])])
    ELSE v

\* manager-tools.ts:41-58 transformArguments (list_organizations)
transformArgumentsManager(toolName, args) ==
    IF toolName = "list_organizations"
    THEN Key("input", Obj(
            Spread(IfTruthy(args, "organizationName"),
            Spread(IfTruthy(args, "organizationCode"),
                   IF Truthy(Get(args, "pageSize")) \/ Truthy(Get(args, "pageNumber"))
                   THEN Key("page", Obj(
                            Spread(IF Truthy(Get(args, "pageSize"))
                                   THEN Key("size", Get(args, "pageSize")) ELSE NoKeys,
                                   IF Truthy(Get(args, "pageNumber"))
                                   THEN Key("number", Get(args, "pageNumber")) ELSE NoKeys)))
                   ELSE NoKeys))))
    ELSE args

\* the variables a handler passes to executeGraphQL (tools.ts:335-338,
\* manager-tools.ts:230-235)
Variables(e, toolName, args) ==
    IF e = "partner" THEN Obj(transformArguments(toolName, args))
    ELSE Obj(transformArgumentsManager(toolName, args))

\* The argument objects the checks call the tools with.  A string argument
\* is left out or given; a filter list is left out, empty or given; `first`
\* is left out, 0 or given.
StrArg == {Str("v")}
ListArgs == {List(<<>>), List(<<"id1">>)}
FirstArgs == {Num(0), Num(10)}

\* every object with keys among ks, the value of key k drawn from vals[k]
ObjectsOver(ks, vals) ==
    UNION {{f \in [sub -> UNION {vals[k] : k \in sub}] : \A k \in sub : f[k] \in vals[k]} :
                sub \in SUBSET ks}

AddressFields == {"addressLine1", "addressLine2", "city", "state", "zip", "country"}
OtherOptionalFields ==
    {"middleName", "email", "phoneNumber", "dateOfBirth", "tin", "language", "externalUserId"}

\* create_individual: the two names, any of the address fields, and up to
\* MaxOptional of the other optional fields
CreateIndividualArgs ==
    {Spread(Spread(Key("firstName", Str("v")), Key("lastName", Str("v"))), Spread(a, b)) :
        a \in ObjectsOver(AddressFields, [k \in AddressFields |-> StrArg]),
        b \in {x \in ObjectsOver(OtherOptionalFields, [k \in OtherOptionalFields |-> StrArg]) :
                    Cardinality(DOMAIN x) <= MaxOptional}}

FilterLists(toolName) ==
    IF toolName = "list_organizations" THEN {"ids"}
    ELSE IF toolName = "list_individuals"
    THEN {"ids", "organizationIds", "benefitIds", "benefitsProgramIds", "statuses"}
    ELSE IF toolName = "list_benefits_programs" THEN {"organizationIds"}
    ELSE {}

\* a list tool: any of its filter lists, `after` and `first`
ListToolArgs(toolName) ==
    {Spread(f, p) :
        f \in ObjectsOver(FilterLists(toolName), [k \in FilterLists(toolName) |-> ListArgs]),
        p \in ObjectsOver({"after", "first"},
                          [k \in {"after", "first"} |-> IF k = "after" THEN StrArg ELSE FirstArgs])}

\* the manager's list_organizations: a name filter and a page size
ManagerListArgs ==
    ObjectsOver({"organizationName", "pageSize"},
                [k \in {"organizationName", "pageSize"} |->
                    IF k = "organizationName" THEN StrArg ELSE FirstArgs])

ArgsOf(e, toolName) ==
    IF e = "manager" THEN ManagerListArgs
    ELSE IF toolName = "create_individual" THEN CreateIndividualArgs
    ELSE ListToolArgs(toolName)

\* the call of a tool with the required arguments alone
PlainArgs(e, toolName) ==
    {args \in ArgsOf(e, toolName) : DOMAIN args \subseteq {"firstName", "lastName"}}

\* null
Null == [t |-> "null", s |-> "", n |-> 0, l |-> <<>>, o |-> <<>>]

\* tool.resultPath.split('.') (tools.ts:304), for the tools of ToolsOf
\* (partner-definitions.ts, manager-definitions.ts)
ResultPath(e, toolName) ==
    IF e = "manager" THEN <<"filteredPartnerOrganizations">>
    ELSE IF toolName = "list_organizations" THEN <<"organizations">>
    ELSE IF toolName = "list_individuals" THEN <<"individuals">>
    ELSE IF toolName = "list_benefits_programs" THEN <<"benefitsPrograms">>
    ELSE IF toolName = "list_benefit_templates" THEN <<"benefitTemplates">>
    ELSE <<"createIndividual">>

\* the subtree an upstream answer holds for a tool: a page of results
Page ==
    Obj(Spread(Key("nodes", List(<<"id1", "id2">>)),
               Key("pageInfo", Obj(Spread(Key("hasNextPage", Num(0)),
                                          Key("endCursor", Str("c")))))))

\* the data of an upstream answer: none, an object that holds the page
\* under the first key of the path next to another key, or an object
\* without that key
ResponseData(path, data) ==
    IF data = "undefined" THEN Undefined
    ELSE IF data = "withPath"
    THEN Obj(Spread(Key(path[1], Page), Key("__typename", Str("Query"))))
    ELSE Obj(Key("__typename", Str("Query")))

\* an extraction that returns the data as a whole
extractResultWholeData(result, parts) == result

\* tools.ts:303-316 extractResult: the loop over the parts of the path
RECURSIVE extractResult(_, _)
extractResult(result, parts) ==
    IF parts = <<>> THEN result
    ELSE IF result.t = "object" /\ Head(parts) \in DOMAIN result.o
    THEN extractResult(result.o[Head(parts)], Tail(parts))
    ELSE Undefined

\* tools.ts:353-358: response.data ? extractResult(...) : null, then
\* JSON.stringify(result, null, 2), which is undefined for undefined
ResultText(path, data) ==
    LET result == IF data = "undefined" THEN Null
                  ELSE extractResult(ResponseData(path, data), path)
    IN IF result.t = "undefined" THEN <<"undefined">> ELSE <<"json", Serialize(result)>>

\* a handler without the try block around its body
createToolHandlerUncaught(call, outcome) ==
    IF outcome.kind = "throws" THEN ToolThrew(outcome.error.message)
    ELSE IF outcome.kind = "null" THEN ToolThrew("Cannot read properties of null")
    ELSE IF outcome.hasErrors /\ Len(outcome.errors) > 0
    THEN ToolError(outcome.errors[1].message)
    ELSE ToolOk(ResultText(ResultPath(call.endpointType, call.tool), outcome.data))

\* tools.ts:328-376, manager-tools.ts:226-273 createToolHandler: what the
\* handler returns once executeGraphQL has settled
createToolHandler(call, outcome) ==
    IF outcome.kind = "throws" THEN CatchBlock(outcome.error)
    ELSE IF outcome.kind = "null"
    THEN \* response.errors of null throws a TypeError inside the try
         CatchBlock([isError |-> TRUE, message |-> "Cannot read properties of null"])
    ELSE IF outcome.hasErrors /\ Len(outcome.errors) > 0
    THEN ToolError(outcome.errors[1].message)
    ELSE ToolOk(ResultText(ResultPath(call.endpointType, call.tool), outcome.data))

\* the protocol layer calls the handler of a tool, which calls upstream
\* (tools.ts:330-338)
ToolInvoke(e, tool, args) ==
    /\ toolPc = "idle"
    /\ toolPc' = "awaiting"
    /\ toolCall' = [tool |-> tool, endpointType |-> e, args |-> args,
                    variables |-> Variables(e, tool, args),
                    sent |-> Serialize(Variables(e, tool, args)),
                    upstream |-> "pending"]
    /\ toolResult' = NoCall
    /\ UNCHANGED <<httpVars, stdioVars, shutdownVars>>

\* executeGraphQL settles and the handler returns (tools.ts:338-372)
ToolUpstreamSettles(outcome) ==
    /\ toolPc = "awaiting"
    /\ toolPc' = "returned"
    /\ toolCall' = [toolCall EXCEPT !.upstream = outcome]
    /\ toolResult' = createToolHandler(toolCall, outcome)
    /\ UNCHANGED <<httpVars, stdioVars, shutdownVars>>

\* the protocol layer has the result of the call and the handler is free
\* to be called again
ToolReturned ==
    /\ toolPc = "returned"
    /\ toolPc' = "idle"
    /\ toolCall' = NoCall
    /\ toolResult' = NoCall
    /\ UNCHANGED <<httpVars, stdioVars, shutdownVars>>

NextTools ==
    \/ \E e \in EndpointTypes : \E tool \in ToolsOf(e) : \E args \in PlainArgs(e, tool) :
            ToolInvoke(e, tool, args)
    \/ \E outcome \in UpstreamOutcomes : ToolUpstreamSettles(outcome)
    \/ ToolReturned

\* The tools called with every argument object of ArgsOf, the upstream
\* answering with or without errors.
NextTransform ==
    \/ \E e \in EndpointTypes : \E tool \in ToolsOf(e) : \E args \in ArgsOf(e, tool) :
            ToolInvoke(e, tool, args)
    \/ \E outcome \in {o \in UpstreamOutcomes : o.kind = "object" /\ Len(o.errors) <= 1} :
            ToolUpstreamSettles(outcome)
    \/ ToolReturned

---------------------------------------------------------------------------
(* Initial state and specifications *)

EmptyMap == [k \in {} |-> k]

InitHttp ==
    /\ transports = EmptyMap
    /\ sessionTokens = EmptyMap
    /\ sessionAuthMethods = EmptyMap
    /\ sessionEndpointTypes = EmptyMap
    /\ transportObjs = EmptyMap
    /\ tokenCache = EmptyMap
    /\ now = 0
    /\ ticks = 0
    /\ handler = [s \in Slots |-> IdleHandler]
    /\ nReq = 0
    /\ cur = Seen(IdleHandler)
    /\ lastOk = EmptyMap

InitStdio ==
    /\ stdioPc = "start"
    /\ stdinListener = "none"
    /\ stdinBuffer = <<>>
    /\ arrived = <<>>
    /\ delivered = <<>>
    /\ stdioToken = NoToken
    /\ exitCode = NoExit

InitShutdown ==
    /\ shutdownPc = "running"
    /\ shutdownEntries = <<>>
    /\ shutdownTodo = <<>>
    /\ shutdownVisited = <<>>
    /\ shutdownFailed = {}
    /\ httpExitCode = NoExit

InitTools ==
    /\ toolPc = "idle"
    /\ toolCall = NoCall
    /\ toolResult = NoCall

Init == InitHttp /\ InitStdio /\ InitShutdown /\ InitTools

\* the requests a client can send
SessionHeaders == SessionIds \cup {NoSession}
Outcomes == {"ok", "non2xx", "networkError", "missingFields"}

\* The HTTP server's handlers, for requests that arrive within one reading of
\* the clock.
NextSessions ==
    \/ \E e \in EndpointTypes, sid \in SessionHeaders, hdr \in Headers, b \in Bodies :
            ReceivePost(e, sid, hdr, b)
    \/ \E s \in Slots, outcome \in Outcomes : ExchangeResolve(s, outcome)
    \/ \E s \in Slots, throws \in BOOLEAN : PostHandle(s, throws)
    \/ \E e \in EndpointTypes, sid \in SessionHeaders, hdr \in Headers, throws \in BOOLEAN :
            ReceiveGet(e, sid, hdr, throws)
    \/ \E e \in EndpointTypes, sid \in SessionHeaders, hdr \in Headers :
            ReceiveDelete(e, sid, hdr)
    \/ \E s \in Slots, ok \in BOOLEAN : DeleteResolve(s, ok)
    \/ \E t \in DOMAIN transportObjs : TransportOnClose(t)

\* The sessions of the manager endpoint, their termination by the client or
\* by the transport, and the shutdown signal.
BearerHeaders == {hdr \in Headers : extractBearerToken(hdr) \in Bearers}

NextShutdown ==
    \/ \E hdr \in BearerHeaders : ReceivePost("manager", NoSession, hdr, "initialize")
    \/ \E s \in Slots : PostHandle(s, FALSE)
    \/ \E sid \in SessionIds, hdr \in BearerHeaders : ReceiveDelete("manager", sid, hdr)
    \/ \E s \in Slots, ok \in BOOLEAN : DeleteResolve(s, ok)
    \/ \E t \in DOMAIN transportObjs : TransportOnClose(t)
    \/ Sigint
    \/ \E ok \in BOOLEAN : ShutdownCloseResolve(ok)

\* The partner endpoint's POST handler and the token cache, as time passes:
\* requests without a key or with a key the upstream accepts, whose exchange
\* can still fail.
AcceptedKeyHeaders == {hdr \in KeyHeaders : extractApiKey(hdr) \in ValidKeys \cup {NoKey}}

NextAuth ==
    \/ \E sid \in SessionHeaders, hdr \in AcceptedKeyHeaders, b \in Bodies :
            ReceivePost("partner", sid, hdr, b)
    \/ \E s \in Slots, outcome \in Outcomes : ExchangeResolve(s, outcome)
    \/ \E s \in Slots : PostHandle(s, FALSE)
    \/ \E d \in TickSteps : Tick(d)

\* A server on which a partner session (for keyA) and a manager session have
\* been initialised, as two runs of ReceivePost, ExchangeResolve and
\* PostHandle leave it, and which has answered both requests.
InitRegistered ==
    /\ transports = (1 :> 1) @@ (2 :> 2)
    /\ sessionTokens = (1 :> IdToken("keyA", 0)) @@ (2 :> BearerToken("bearer1"))
    /\ sessionAuthMethods = (1 :> "api-key") @@ (2 :> "bearer")
    /\ sessionEndpointTypes = (1 :> "partner") @@ (2 :> "manager")
    /\ transportObjs = (1 :> [token |-> IdToken("keyA", 0), sessionId |-> 1, closeCalls |-> 0])
                        @@ (2 :> [token |-> BearerToken("bearer1"), sessionId |-> 2, closeCalls |-> 0])
    /\ tokenCache = CacheSet(EmptyMap, "keyA", IdToken("keyA", 0), 0)
    /\ now = 0
    /\ ticks = 0
    /\ handler = [s \in Slots |-> IdleHandler]
    /\ nReq = 0
    /\ cur = Seen(IdleHandler)
    /\ lastOk = (("keyA") :> 0)
    /\ InitStdio /\ InitShutdown /\ InitTools

\* The requests that end a session or open its stream, on a server with
\* sessions registered, and the transport's answers.
NextTerminate ==
    \/ \E e \in EndpointTypes, sid \in SessionHeaders, hdr \in Headers :
            ReceiveDelete(e, sid, hdr)
    \/ \E s \in Slots, ok \in BOOLEAN : DeleteResolve(s, ok)
    \/ \E t \in DOMAIN transportObjs : TransportOnClose(t)
    \/ \E e \in EndpointTypes, sid \in SessionHeaders, hdr \in Headers, throws \in BOOLEAN :
            ReceiveGet(e, sid, hdr, throws)

Next ==
    \/ NextSessions
    \/ \E d \in TickSteps : Tick(d)
    \/ NextStdio
    \/ Sigint
    \/ \E ok \in BOOLEAN : ShutdownCloseResolve(ok)
    \/ NextTools

Spec == Init /\ [][Next]_vars
SpecSessions == Init /\ [][NextSessions]_vars
SpecAuth == Init /\ [][NextAuth]_vars
SpecStdio == Init /\ [][NextStdio]_vars
SpecTools == Init /\ [][NextTools]_vars
SpecTransform == Init /\ [][NextTransform]_vars
SpecShutdown == Init /\ [][NextShutdown]_vars
SpecTerminate == InitRegistered /\ [][NextTerminate]_vars
\* every close() the shutdown loop awaits settles in the end
SpecShutdownFair == SpecShutdown /\ WF_vars(\E ok \in BOOLEAN : ShutdownCloseResolve(ok))

---------------------------------------------------------------------------
(* Properties *)

\* the four maps of the session registry (index.ts:36-39)
Registry == <<transports, sessionTokens, sessionAuthMethods, sessionEndpointTypes>>

\* the step is the arrival of a POST on the partner endpoint with an API key
PartnerKeyAttempt ==
    /\ nReq' = nReq + 1
    /\ cur'.method = "POST"
    /\ cur'.endpointType = "partner"
    /\ cur'.apiKey # NoKey

\* C1: an API-key authentication attempt made at time t issues an exchange
\* call exactly when the token cache holds no entry for the key whose expiry
\* is strictly later than t; an entry that is present and unexpired is
\* returned (the request goes on authenticated with its token) and the cache
\* is left as it is, while an absent entry or one expiring at t or before
\* sends the handler to the exchange endpoint.
C1_ExchangeIffNoFreshEntry ==
    [][PartnerKeyAttempt =>
        LET k == cur'.apiKey
            fresh == k \in DOMAIN tokenCache /\ tokenCache[k].expiresAt > now
            s == CHOOSE s \in Slots : handler[s].pc = "idle" /\ handler'[s] # handler[s]
        IN /\ cur'.exchanged <=> ~fresh
           /\ cur'.exchanged <=> cur'.pc = "fetching"
           /\ fresh => /\ cur'.authMethod = "api-key"
                       /\ ~cur'.authError
                       /\ cur'.pc = "handling" => handler'[s].token = tokenCache[k].token
           /\ UNCHANGED tokenCache]_vars

\* C1 witness: an attempt made at the very instant the key's entry expires
\* has gone to the exchange endpoint
C1_Witness ==
    /\ cur.method = "POST"
    /\ cur.pc = "fetching"
    /\ cur.exchanged
    /\ cur.apiKey \in DOMAIN tokenCache
    /\ tokenCache[cur.apiKey].expiresAt = now

\* C2 as stated: two attempts with a key the upstream accepts, made within
\* the cache TTL of each other, issue at most one exchange call in total,
\* also when the second starts while the first's call is in flight; so no
\* two handlers are ever waiting on exchange calls for the same such key.
C2_AtMostOneCallInEveryInterleaving ==
    \A s1, s2 \in Slots :
        (/\ s1 # s2
         /\ handler[s1].pc = "fetching"
         /\ handler[s2].pc = "fetching"
         /\ handler[s1].apiKey = handler[s2].apiKey
         /\ handler[s1].apiKey \in ValidKeys
         /\ handler[s2].exchangedAt - handler[s1].exchangedAt < TOKEN_CACHE_TTL_MS
         /\ handler[s1].exchangedAt - handler[s2].exchangedAt < TOKEN_CACHE_TTL_MS)
        => FALSE

\* C2 amended: an attempt with a key that starts after an exchange call for
\* that key has completed with success, and less than the TTL after that
\* completion, issues no call; an attempt that starts before any call for
\* its key has completed with success issues its own call, also while
\* another call for the same key is in flight.
C2_AtMostOneCallAfterCompletion ==
    [][PartnerKeyAttempt =>
        LET k == cur'.apiKey
        IN /\ (k \in DOMAIN lastOk /\ now < lastOk[k] + TOKEN_CACHE_TTL_MS) => ~cur'.exchanged
           /\ k \notin DOMAIN lastOk => cur'.exchanged]_vars

\* C2 witness: a second attempt, made later but within the TTL of the first
\* one's completed exchange, was served without a call
C2_Witness ==
    /\ nReq >= 2
    /\ cur.method = "POST"
    /\ cur.apiKey \in DOMAIN lastOk
    /\ now > lastOk[cur.apiKey]
    /\ now < lastOk[cur.apiKey] + TOKEN_CACHE_TTL_MS
    /\ ~cur.exchanged
    /\ cur.authMethod = "api-key"

\* the step is a handler's run that took a request to its routing or to its
\* answer: the arrival of a request, or the return of a POST's exchange call
RoutingStep ==
    /\ \/ nReq' = nReq + 1
       \/ \E s \in Slots : handler[s].pc = "fetching" /\ handler'[s].pc # "fetching"
    /\ cur'.pc # "fetching"

\* the step constructs no transport
NoTransportBuilt == DOMAIN transportObjs' = DOMAIN transportObjs

\* the step calls close() on no transport
NothingClosed ==
    \A t \in DOMAIN transportObjs : transportObjs'[t].closeCalls = transportObjs[t].closeCalls

\* the request carries no credential its endpoint accepts: no X-API-Key on the
\* partner endpoint, no 'Bearer <token>' Authorization on the manager endpoint
MissingCredential(e, hdr) ==
    IF e = "partner"
    THEN hdr.apiKey \in {NoKey, ""}
    ELSE hdr.authorization \notin {<<"Bearer", b>> : b \in Bearers}

\* C3: an authenticated POST that bears the id of a registered session on the
\* endpoint type the session was created on is handed to the transport the
\* registry holds for the id, which is the transport that took that id when
\* the session was initialized; the handler constructs no transport, and
\* neither its routing nor the transport's handling of the request changes
\* the registry.
C3_FollowUpReusesTransport ==
    [][/\ (/\ RoutingStep
           /\ cur'.method = "POST"
           /\ cur'.sessionId \in DOMAIN transports
           /\ EndpointTypeOf(cur'.sessionId) = cur'.endpointType
           /\ ~cur'.authError)
          => /\ cur'.pc = "handling"
             /\ cur'.dispatched = transports[cur'.sessionId]
             /\ transportObjs[cur'.dispatched].sessionId = cur'.sessionId
             /\ NoTransportBuilt
             /\ UNCHANGED Registry
       /\ \A s \in Slots :
            (/\ handler[s].pc = "handling"
             /\ handler[s].sessionId # NoSession
             /\ handler'[s] # handler[s])
            => /\ cur'.dispatched = handler[s].transport
               /\ transportObjs[handler[s].transport].sessionId = handler[s].sessionId
               /\ NoTransportBuilt
               /\ UNCHANGED Registry]_vars

\* C3 witness: a tools/call POST on a registered session has been handled by
\* the session's transport
C3_Witness ==
    /\ cur.method = "POST"
    /\ cur.body = "tools/call"
    /\ cur.status = 200
    /\ cur.sessionId \in DOMAIN transports
    /\ cur.dispatched = transports[cur.sessionId]
    /\ transportObjs[cur.dispatched].sessionId = cur.sessionId

\* the step answers a request that bears the id of a registered session on the
\* endpoint type the session was not created on
CrossEndpointRequest ==
    /\ RoutingStep
    /\ cur'.sessionId \in DOMAIN transports
    /\ EndpointTypeOf(cur'.sessionId) # cur'.endpointType

\* the answer is the cross-endpoint error (index.ts:119-128, 222-231, 274-283)
CrossEndpointAnswer ==
    /\ cur'.status = 400
    /\ cur'.code = -32000
    /\ cur'.message = <<"Session belongs to", sessionEndpointTypes[cur'.sessionId],
                        "endpoint, not", cur'.endpointType>>

\* the request went to no transport, closed none and left the registry alone
SessionUntouched ==
    /\ cur'.pc = "done"
    /\ cur'.dispatched = NoTransport
    /\ cur'.graphqlToken = NoToken
    /\ NoTransportBuilt
    /\ NothingClosed
    /\ UNCHANGED Registry

\* C4 as stated: any POST, GET or DELETE that bears a registered session's id
\* on the other endpoint type is answered with the cross-endpoint error
\* (400, 'Session belongs to E endpoint, not E2'), reaches no transport,
\* closes nothing and leaves the registry unchanged.
C4_CrossEndpointAlways400 ==
    [][CrossEndpointRequest => (CrossEndpointAnswer /\ SessionUntouched)]_vars

\* C4 amended: any GET or DELETE, and any POST whose authentication succeeds,
\* that bears a registered session's id on the other endpoint type is answered
\* with the cross-endpoint error; a POST whose authentication fails is
\* answered 401 before the session id is looked at; in each case the request
\* reaches no transport, closes nothing and leaves the registry unchanged.
C4_CrossEndpointAfterAuthentication ==
    [][CrossEndpointRequest =>
        /\ IF cur'.method = "POST" /\ cur'.authError
           THEN cur'.status = 401 /\ cur'.code = -32000
           ELSE CrossEndpointAnswer
        /\ cur'.authError => cur'.method = "POST"
        /\ SessionUntouched]_vars

\* C4 witness: an authenticated POST on the other endpoint got the
\* cross-endpoint error
C4_Witness ==
    /\ cur.method = "POST"
    /\ cur.authMethod # "none"
    /\ cur.status = 400
    /\ cur.sessionId \in DOMAIN sessionEndpointTypes
    /\ cur.message = <<"Session belongs to", sessionEndpointTypes[cur.sessionId],
                       "endpoint, not", cur.endpointType>>
    /\ sessionEndpointTypes[cur.sessionId] # cur.endpointType

\* the step answers a request that bears a session id the registry does not hold
UnknownSessionRequest ==
    /\ RoutingStep
    /\ cur'.sessionId # NoSession
    /\ cur'.sessionId \notin DOMAIN transports

\* the invalid-session answer of each method (index.ts:163-172, 209-219, 261-271)
InvalidSessionAnswer ==
    /\ cur'.code = -32000
    /\ \/ cur'.method = "POST" /\ cur'.status = 400
                               /\ cur'.message = <<"Invalid or expired session">>
       \/ cur'.method = "GET" /\ cur'.status = 400
                              /\ cur'.message = <<"Invalid or missing session ID">>
       \/ cur'.method = "DELETE" /\ cur'.status = 404
                                 /\ cur'.message = <<"Session not found">>

C7_BufferedChunksReplayedInOrder ==
    /\ stdioPc = "authenticating" => (stdinBuffer = arrived /\ delivered = <<>>)
    /\ stdioPc = "ready" =>
        /\ delivered = arrived
        /\ Len(stdinBuffer) <= Len(delivered)
        /\ SubSeq(delivered, 1, Len(stdinBuffer)) = stdinBuffer

\* C7 witness: two different chunks were buffered, authentication succeeded,
\* and a further chunk arrived after the replay
C7_Witness ==
    /\ stdioPc = "ready"
    /\ Len(stdinBuffer) = 2
    /\ stdinBuffer[1] # stdinBuffer[2]
    /\ Len(delivered) = 3

\* the answer is the unauthorized error, and the request did nothing else
Unauthorized ==
    /\ cur'.status = 401
    /\ cur'.code = -32000
    /\ cur'.authError
    /\ SessionUntouched

\* C8: a POST whose authentication fails, for want of a credential header or
\* because the exchange of its API key fails, is answered 401 with the
\* unauthorized JSON-RPC error, is handed to no transport, causes no upstream
\* GraphQL call, and leaves the session registry unchanged.
C8_AuthFailureUnauthorized ==
    [][/\ (nReq' = nReq + 1 /\ cur'.method = "POST") =>
            \A hdr \in Headers :
                (/\ MissingCredential(cur'.endpointType, hdr)
                 /\ ReceivePost(cur'.endpointType, cur'.sessionId, hdr, cur'.body))
                => Unauthorized
       /\ \A s \in Slots, outcome \in Outcomes \ {"ok"} :
            ExchangeResolve(s, outcome) => (Unauthorized /\ handler'[s] = IdleHandler)]_vars

\* C8 witness: with a session registered, a POST whose key the exchange
\* refused has been answered 401
C8_Witness ==
    /\ cur.method = "POST"
    /\ cur.exchanged
    /\ cur.apiKey = "badKey"
    /\ cur.status = 401
    /\ DOMAIN transports # {}

\* C9: the token recorded for a session and the token its tool handlers call
\* upstream with are the token the authentication of its initialize request
\* produced, from the session's registration for as long as it is registered:
\* no step changes either, and a tools/call on the session calls upstream
\* with that token, whatever the request's own credential and whatever the
\* token cache holds by then.
C9_SessionTokenBound ==
    [][/\ \A s \in Slots :
            (ExchangeResolve(s, "ok") /\ handler'[s].pc = "handling")
            => handler'[s].token = IdToken(handler[s].apiKey, now)
       /\ \A sid \in DOMAIN sessionTokens' \ DOMAIN sessionTokens :
            \E s \in Slots :
                /\ handler[s].pc = "handling"
                /\ handler[s].body = "initialize"
                /\ handler'[s] = IdleHandler
                /\ sessionTokens'[sid] = handler[s].token
                /\ transportObjs'[transports'[sid]].token = handler[s].token
       /\ \A sid \in DOMAIN sessionTokens \cap DOMAIN sessionTokens' :
            /\ sessionTokens'[sid] = sessionTokens[sid]
            /\ transports'[sid] = transports[sid]
            /\ transportObjs'[transports[sid]].token = sessionTokens[sid]
       /\ \A s \in Slots :
            (/\ handler[s].pc = "handling"
             /\ handler'[s] # handler[s]
             /\ handler[s].body = "tools/call"
             /\ handler[s].sessionId \in DOMAIN sessionTokens
             /\ cur'.status = 200)
            => cur'.graphqlToken = sessionTokens[handler[s].sessionId]]_vars

\* C9 witness: a tools/call on a session called upstream with the session's
\* token after the cache had moved on to a later token for the same key
C9_Witness ==
    /\ cur.body = "tools/call"
    /\ cur.status = 200
    /\ cur.sessionId \in DOMAIN sessionTokens
    /\ cur.graphqlToken = sessionTokens[cur.sessionId]
    /\ cur.apiKey \in DOMAIN tokenCache
    /\ tokenCache[cur.apiKey].token # sessionTokens[cur.sessionId]
    /\ tokenCache[cur.apiKey].token[1] = sessionTokens[cur.sessionId][1]

\* the step is the arrival of a POST that bears the id of a registered session
\* on the endpoint type the session was created on
FollowUpArrives ==
    /\ nReq' = nReq + 1
    /\ cur'.method = "POST"
    /\ cur'.sessionId \in DOMAIN transports
    /\ EndpointTypeOf(cur'.sessionId) = cur'.endpointType

Terminated(sid) ==
    /\ sid # NoSession
    /\ \E t \in DOMAIN transportObjs : transportObjs[t].sessionId = sid
    /\ sid \notin DOMAIN transports

\* after the step none of the four maps has the id
AbsentAfter(sid) ==
    /\ sid \notin DOMAIN transports'
    /\ sid \notin DOMAIN sessionTokens'
    /\ sid \notin DOMAIN sessionAuthMethods'
    /\ sid \notin DOMAIN sessionEndpointTypes'

\* a DELETE answered 204 and a run of the close callback leave the session's
\* id in none of the four maps, and an id that has left the registry does
\* not come back
RemovedForGood ==
    /\ \A s \in Slots :
        (handler[s].pc = "closing" /\ handler'[s].pc # "closing" /\ cur'.status = 204)
        => AbsentAfter(handler[s].sessionId)
    /\ \A t \in DOMAIN transportObjs :
        TransportOnClose(t) => AbsentAfter(transportObjs[t].sessionId)
    /\ \A sid \in SessionIds : Terminated(sid) => AbsentAfter(sid)

\* C11 as stated: after a DELETE for a session was answered 204, or after the
\* session's transport close callback ran, the session's id is in none of the
\* four maps, and every later request that bears the id is answered with an
\* invalid-session or not-found error.
C11_TerminatedThenAlwaysInvalid ==
    [][/\ RemovedForGood
       /\ (RoutingStep /\ Terminated(cur'.sessionId)) => InvalidSessionAnswer]_vars

\* C11 amended: the id is in none of the four maps from then on; a later GET
\* or DELETE that bears it, and a later POST that bears it and whose
\* authentication succeeds, is answered with the invalid-session or not-found
\* error, while a later POST whose authentication fails is answered 401.
C11_TerminatedThenInvalidAfterAuthentication ==
    [][/\ RemovedForGood
       /\ (RoutingStep /\ Terminated(cur'.sessionId)) =>
            /\ IF cur'.method = "POST" /\ cur'.authError
               THEN cur'.status = 401 /\ cur'.code = -32000
               ELSE InvalidSessionAnswer
            /\ UNCHANGED Registry]_vars

\* C11 witness: a GET that bore the id of a session no longer registered got
\* the invalid-session answer
C11_Witness ==
    /\ cur.method = "GET"
    /\ Terminated(cur.sessionId)
    /\ cur.status = 400
    /\ cur.message = <<"Invalid or missing session ID">>

---------------------------------------------------------------------------
(* C12 *)

\* the session ids that were registered when the signal arrived
SignalledSessions == {shutdownEntries[i].sessionId : i \in 1..Len(shutdownEntries)}

\* the number of times the shutdown loop called close() for sid
CloseAttempts(sid) == Cardinality({i \in 1..Len(shutdownVisited) : shutdownVisited[i] = sid})

InNoMap(sid) ==
    /\ sid \notin DOMAIN transports
    /\ sid \notin DOMAIN sessionTokens
    /\ sid \notin DOMAIN sessionAuthMethods
    /\ sid \notin DOMAIN sessionEndpointTypes

\* C12: when the process has exited after the shutdown signal, close was
\* attempted exactly once on every session that was registered when the
\* signal arrived, and every one of those sessions is absent from the
\* registry, whether its close resolved or rejected.
C12_ShutdownRemovesEverySession ==
    shutdownPc = "exited" =>
        \A sid \in SignalledSessions : CloseAttempts(sid) = 1 /\ InNoMap(sid)

---------------------------------------------------------------------------
(* C13 *)

\* the session ids of the first n entries of the snapshot, in the loop's order
SnapshotIds(n) == [i \in 1..n |-> shutdownEntries[i].sessionId]

\* C13: once the shutdown signal is received, and each close() the loop
\* awaits settles, the process exits (with status 0), for any number of
\* sessions and any set of failing closes; every close the loop makes is the
\* next entry's, so a failed close is not repeated, and at exit every entry
\* of the snapshot has been visited.
C13_ShutdownAlwaysCompletes ==
    /\ [](shutdownPc = "closing" =>
            /\ shutdownTodo # <<>>
            /\ Len(shutdownVisited) = Len(shutdownEntries) - Len(shutdownTodo) + 1
            /\ shutdownVisited = SnapshotIds(Len(shutdownVisited)))
    /\ [](shutdownPc = "exited" =>
            /\ shutdownVisited = SnapshotIds(Len(shutdownEntries))
            /\ httpExitCode = 0)
    /\ ((shutdownPc = "closing") ~> (shutdownPc = "exited"))

\* the process exited after two closes, the first of which had failed
C13_Witness ==
    /\ shutdownPc = "exited"
    /\ Len(shutdownEntries) = 2
    /\ shutdownEntries[1].sessionId \in shutdownFailed
    /\ shutdownVisited = SnapshotIds(2)

---------------------------------------------------------------------------
(* C14 *)

\* the stdio process has exited with a non-zero status, with no transport
\* listening, no token, and nothing handed to the protocol layer
ExitedBeforeTransport ==
    /\ stdioPc = "exited"
    /\ exitCode # 0
    /\ exitCode # NoExit
    /\ stdinListener # "transport"
    /\ stdioToken = NoToken
    /\ delivered = <<>>

\* C14: when the startup exchange of the stdio server fails (a malformed
\* key, a non-2xx answer, an answer without a token, or a request that
\* threw), the process exits with a non-zero status, no transport has been
\* constructed and no buffered chunk is delivered to the protocol layer,
\* then or later.
C14_FailedStartupExchangeExits ==
    /\ [][/\ \A outcome \in StdioOutcomes \ {"ok"} :
                StdioAuthResolve(outcome) => ExitedBeforeTransport'
          /\ \A k \in EnvKeys :
                (k # <<>> /\ ~WellFormedKey(k) /\ StdioStart(k)) => ExitedBeforeTransport']_vars
    /\ [](stdioPc = "exited" => ExitedBeforeTransport)

\* the exchange failed after chunks had been buffered
C14_Witness ==
    /\ ExitedBeforeTransport
    /\ Len(stdinBuffer) >= 2
    /\ arrived = stdinBuffer

---------------------------------------------------------------------------
(* C15 *)

\* C15: in the stdio server no chunk reaches the protocol layer before the
\* startup authentication has completed: a chunk that arrives while the
\* exchange is pending is appended to the buffer, which holds the chunks in
\* their order of arrival, and anything delivered is delivered after the
\* exchange has succeeded.
C15_NothingDeliveredBeforeAuthentication ==
    /\ [](stdioPc = "authenticating" =>
            /\ delivered = <<>>
            /\ stdioToken = NoToken
            /\ stdinListener = "bufferData"
            /\ stdinBuffer = arrived)
    /\ [](delivered # <<>> => stdioPc = "ready" /\ stdioToken # NoToken)
    /\ [][\A c \in Chunks :
            (stdioPc = "authenticating" /\ StdinData(c)) =>
                /\ stdinBuffer' = Append(stdinBuffer, c)
                /\ delivered' = <<>>
                /\ stdioPc' = "authenticating"]_vars

\* two different chunks have arrived while the exchange is pending
C15_Witness ==
    /\ stdioPc = "authenticating"
    /\ Len(stdinBuffer) = 2
    /\ stdinBuffer[1] # stdinBuffer[2]
    /\ stdinBuffer = arrived
    /\ delivered = <<>>

---------------------------------------------------------------------------
(* C16 *)

\* C16: a token exchange that fails (a non-2xx answer, a network error, or
\* an answer without the token or the partner code) leaves the token cache
\* as it was, entry for entry; the handler makes no second call, and its
\* request is answered with the authentication error.
C16_FailedExchangeLeavesCache ==
    [][\A s \in Slots :
        (/\ handler[s].pc = "fetching"
         /\ handler'[s].pc # "fetching"
         /\ \E outcome \in Outcomes \ {"ok"} : ExchangeResolve(s, outcome)) =>
            /\ tokenCache' = tokenCache
            /\ handler'[s].pc = "idle"
            /\ \A s2 \in Slots \ {s} : handler'[s2] = handler[s2]
            /\ cur'.apiKey = handler[s].apiKey
            /\ cur'.authError
            /\ cur'.status = 401
            /\ cur'.code = -32000
            /\ cur'.dispatched = NoTransport]_vars

\* an exchange for a key has failed while the cache holds the entry an
\* earlier exchange for the same key had stored
C16_Witness ==
    /\ cur.exchanged
    /\ cur.authError
    /\ cur.status = 401
    /\ cur.apiKey \in DOMAIN tokenCache
    /\ \A s \in Slots : handler[s].pc = "idle"

---------------------------------------------------------------------------
(* C17 *)

\* the time of the exchange that stored the key's entry
StoredAt(k) == tokenCache[k].token[2]

\* C17 as stated: the entry stored by an exchange that succeeded at time t
\* expires at t + min(L - margin, ceiling), L being the lifetime the
\* upstream declares and the ceiling 55 minutes; so when L is shorter than
\* the ceiling the entry expires before the upstream token does.
C17_ExpiryWithinUpstreamLifetime ==
    \A k \in DOMAIN tokenCache :
        /\ tokenCache[k].expiresAt =
                StoredAt(k) + Min(UpstreamLifetime(k) - SafetyMargin, TOKEN_CACHE_TTL_MS)
        /\ UpstreamLifetime(k) < TOKEN_CACHE_TTL_MS =>
                tokenCache[k].expiresAt < StoredAt(k) + UpstreamLifetime(k)

\* C17 as the code has it: the entry stored by an exchange that succeeded at
\* time t expires at t + 55 minutes, whatever lifetime the upstream token
\* has; so when that lifetime is shorter than 55 minutes the entry expires
\* after the upstream token does.
C17_ExpiryFixedTtl ==
    [][/\ \A s \in Slots :
            (/\ handler[s].pc = "fetching"
             /\ handler'[s].pc # "fetching"
             /\ ExchangeResolve(s, "ok")) =>
                /\ handler[s].apiKey \in DOMAIN tokenCache'
                /\ tokenCache'[handler[s].apiKey].expiresAt = now + TOKEN_CACHE_TTL_MS
                /\ tokenCache'[handler[s].apiKey].token = IdToken(handler[s].apiKey, now)
       /\ \A k \in DOMAIN tokenCache' :
            /\ tokenCache'[k].expiresAt = tokenCache'[k].token[2] + TOKEN_CACHE_TTL_MS
            /\ UpstreamLifetime(k) < TOKEN_CACHE_TTL_MS =>
                    tokenCache'[k].expiresAt > tokenCache'[k].token[2] + UpstreamLifetime(k)]_vars

\* the entry of a key whose upstream token lives half an hour is still
\* served after that token has expired
C17_Witness ==
    /\ "keyB" \in DOMAIN tokenCache
    /\ now >= StoredAt("keyB") + UpstreamLifetime("keyB")
    /\ CacheFresh(tokenCache, "keyB", now)
    /\ cur.apiKey = "keyB"
    /\ ~cur.exchanged
    /\ cur.authMethod = "api-key"

---------------------------------------------------------------------------
(* C18 *)

\* C18: for a request that carries an API key, every cause of exchange
\* failure (the upstream refuses the key, the upstream is unreachable or
\* answers non-2xx, the answer lacks a required field) gives the same
\* outward error, code and message alike: the step a failure takes is the
\* step every other failure possible for that key would have taken.
C18_ExchangeFailuresIndistinguishable ==
    [][\A s \in Slots :
        (handler[s].pc = "fetching" /\ handler'[s].pc # "fetching") =>
            \A o1 \in Outcomes \ {"ok"} :
                ExchangeResolve(s, o1) =>
                    /\ cur'.status = 401
                    /\ cur'.code = -32000
                    /\ cur'.message = <<"Invalid API key">>
                    /\ \A o2 \in ExchangeOutcomes(handler[s].apiKey) \ {"ok"} :
                            ExchangeResolve(s, o2)
                    /\ \A o2 \in Outcomes \ {"ok"} :
                            ExchangeResult(o2, NoToken) = ExchangeResult(o1, NoToken)]_vars

\* the exchange for a key the upstream accepts has failed, and the request
\* was answered like one with a key the upstream refuses
C18_Witness ==
    /\ cur.method = "POST"
    /\ cur.exchanged
    /\ cur.apiKey \in ValidKeys
    /\ cur.status = 401
    /\ cur.code = -32000
    /\ cur.message = <<"Invalid API key">>

---------------------------------------------------------------------------
(* C19 *)

\* The category of the error a finished handler answered with.  401 is sent
\* for an authError alone (index.ts:100-110), 500 from the catch blocks
\* alone (index.ts:186-197, 240-250, 296-306); the 400 of a POST without
\* session id is the malformed request (index.ts:173-182), every other 400
\* or 404 a session error (index.ts:119-128, 163-172, 209-231, 261-283).
ErrorCategory(r) ==
    IF r.pc # "done" THEN "none"
    ELSE IF r.status = 401 THEN "unauthorized"
    ELSE IF r.status = 500 THEN "internal"
    ELSE IF r.status \in {400, 404}
    THEN IF r.method = "POST" /\ r.sessionId = NoSession THEN "malformed" ELSE "invalidSession"
    ELSE "none"

\* C19 as stated: the codes of unauthorized, invalid session, malformed
\* request and internal error are pairwise different, so two answers of
\* different categories never carry the same code.
C19_CategoriesHaveDistinctCodes ==
    [][(/\ ErrorCategory(cur) # "none"
        /\ ErrorCategory(cur') # "none"
        /\ ErrorCategory(cur) # ErrorCategory(cur')) => cur.code # cur'.code]_vars

\* C19 as the code has it: unauthorized and invalid session share the code
\* -32000 and differ in the HTTP status; malformed request (-32600) and
\* internal error (-32603) have codes of their own.
C19_ThreeCodesForFourCategories ==
    [][/\ ErrorCategory(cur') \in {"unauthorized", "invalidSession"} => cur'.code = -32000
       /\ ErrorCategory(cur') = "malformed" => cur'.code = -32600
       /\ ErrorCategory(cur') = "internal" => cur'.code = -32603
       /\ (/\ ErrorCategory(cur) # "none"
           /\ ErrorCategory(cur') # "none"
           /\ ErrorCategory(cur) # ErrorCategory(cur')) =>
                IF {ErrorCategory(cur), ErrorCategory(cur')} = {"unauthorized", "invalidSession"}
                THEN cur.code = cur'.code /\ cur.status # cur'.status
                ELSE cur.code # cur'.code]_vars

\* a POST that passed authentication has been answered with the session
\* error, under the code an unauthenticated POST is answered with
C19_Witness ==
    /\ nReq >= 2
    /\ cur.method = "POST"
    /\ ErrorCategory(cur) = "invalidSession"
    /\ ~cur.authError
    /\ cur.code = authenticateBearerRequest([apiKey |-> "", authorization |-> NoAuthorization]).code

---------------------------------------------------------------------------
(* C20 *)

\* the failure message of an upstream outcome: the first error's message of
\* a non-empty errors list, or the message of what was thrown
FailureMessage(outcome) ==
    IF outcome.kind = "throws" THEN outcome.error.message
    ELSE outcome.errors[1].message

UpstreamFailed(outcome) ==
    \/ outcome.kind = "throws"
    \/ outcome.kind = "object" /\ outcome.hasErrors /\ Len(outcome.errors) > 0

\* C20: a tool handler never throws, whatever the tool and whatever the
\* upstream did; when the upstream answer carries a non-empty errors list, or
\* the upstream call or its JSON decoding throws, the handler returns a
\* normal tool result flagged isError whose text is "Error: " followed by
\* the failure message (the first upstream error's message).
C20_ToolHandlerNeverThrows ==
    toolPc = "returned" =>
        /\ ~toolResult.threw
        /\ UpstreamFailed(toolCall.upstream) =>
                /\ toolResult.isError
                /\ toolResult.text = <<"Error: ", FailureMessage(toolCall.upstream)>>

\* the handler returned an error result for an answer with two errors, and
\* one for a call that threw
C20_Witness ==
    /\ toolPc = "returned"
    /\ toolCall.upstream.kind = "object"
    /\ toolCall.upstream.hasErrors
    /\ Len(toolCall.upstream.errors) = 2
    /\ toolCall.upstream.errors[1].message # toolCall.upstream.errors[2].message
    /\ toolResult.isError
    /\ toolResult.text = <<"Error: ", toolCall.upstream.errors[1].message>>

---------------------------------------------------------------------------
(* C21 *)

\* the session ids any transport has been given so far
IdsGiven == {transportObjs[t].sessionId : t \in DOMAIN transportObjs} \ {NoSession}

\* slot s holds an authenticated initialize request without session id,
\* whose transport has been constructed, and the step ends its handling
InitializeHandled(s) ==
    /\ handler[s].pc = "handling"
    /\ handler[s].sessionId = NoSession
    /\ handler[s].body = "initialize"
    /\ handler'[s].pc # "handling"

\* the step registers exactly one session, under an id never given before,
\* with the transport, token, auth method and endpoint type of the request
\* in slot s, and leaves every other entry of the four maps as it was
RegistersOwnSession(s) ==
    \E sid \in SessionIds :
        /\ sid \notin IdsGiven
        /\ sid \notin DOMAIN transports
        /\ DOMAIN transports' = DOMAIN transports \cup {sid}
        /\ DOMAIN sessionTokens' = DOMAIN sessionTokens \cup {sid}
        /\ DOMAIN sessionAuthMethods' = DOMAIN sessionAuthMethods \cup {sid}
        /\ DOMAIN sessionEndpointTypes' = DOMAIN sessionEndpointTypes \cup {sid}
        /\ transports'[sid] = handler[s].transport
        /\ sessionTokens'[sid] = handler[s].token
        /\ sessionAuthMethods'[sid] = handler[s].authMethod
        /\ sessionEndpointTypes'[sid] = handler[s].endpointType
        /\ handler[s].token # NoToken
        /\ \A k \in DOMAIN transports :
                /\ transports'[k] = transports[k]
                /\ sessionTokens'[k] = sessionTokens[k]
                /\ sessionAuthMethods'[k] = sessionAuthMethods[k]
                /\ sessionEndpointTypes'[k] = sessionEndpointTypes[k]
        /\ DOMAIN transportObjs' = DOMAIN transportObjs

\* the step in which an authenticated POST without session id and with an
\* initialize body is routed constructs exactly one transport
ConstructsOneTransport ==
    (/\ RoutingStep
     /\ cur'.method = "POST"
     /\ ~cur'.authError
     /\ cur'.sessionId = NoSession
     /\ cur'.body = "initialize") =>
        /\ cur'.pc = "handling"
        /\ Cardinality(DOMAIN transportObjs' \ DOMAIN transportObjs) = 1
        /\ DOMAIN transportObjs \subseteq DOMAIN transportObjs'
        /\ UNCHANGED Registry

---------------------------------------------------------------------------
(* C22 *)

\* C22: an authenticated POST that carries no session id and whose body is
\* not an initialize request is answered with the malformed-request error
\* (HTTP 400, code -32600); it is handed to no transport, no transport is
\* constructed for it and the registry is left as it was.
C22_NoSessionNoInitializeIsMalformed ==
    [][(/\ RoutingStep
        /\ cur'.method = "POST"
        /\ ~cur'.authError
        /\ cur'.sessionId = NoSession
        /\ cur'.body # "initialize") =>
            /\ cur'.status = 400
            /\ cur'.code = -32600
            /\ cur'.message = <<"Invalid request: session ID required or initialize first">>
            /\ SessionUntouched
            /\ \A s \in Slots : handler'[s].pc = "handling" => handler[s].pc = "handling"]_vars

\* with a session registered, a tools/call that passed authentication
\* without a session id has been answered with the malformed-request error
C22_Witness ==
    /\ cur.method = "POST"
    /\ cur.sessionId = NoSession
    /\ cur.body = "tools/call"
    /\ cur.authMethod # "none"
    /\ cur.status = 400
    /\ cur.code = -32600
    /\ DOMAIN transports # {}

---------------------------------------------------------------------------
(* C23 *)

\* a call of the partner's create_individual is under way or has returned
CreateIndividualCalled ==
    /\ toolPc # "idle"
    /\ toolCall.endpointType = "partner"
    /\ toolCall.tool = "create_individual"

\* the input object of the variables, as built and as sent
InputBuilt == toolCall.variables.o["input"].o
InputSent == toolCall.sent.o["input"].o

---------------------------------------------------------------------------
(* C24 *)

ListTools ==
    {"list_organizations", "list_individuals", "list_benefits_programs",
     "list_benefit_templates"}

\* a call of one of the partner's list tools is under way or has returned
ListToolCalled ==
    /\ toolPc # "idle"
    /\ toolCall.endpointType = "partner"
    /\ toolCall.tool \in ListTools

\* the arguments hold no filter and no pagination argument: no key at all,
\* or filter lists that are all empty
NoFilterArguments ==
    \A k \in DOMAIN toolCall.args :
        k \in FilterLists(toolCall.tool) /\ toolCall.args[k] = List(<<>>)

\* C24: a partner list tool called without filter arguments, or with empty
\* filter lists alone, sends variables without where clause and without
\* pagination keys; and when the upstream answer has no errors and holds
\* data under the tool's path, the result is a normal one whose text is the
\* JSON of exactly the subtree at that path (null when the answer has no
\* data at all).
C24_ListToolPassesThrough ==
    ListToolCalled =>
        /\ NoFilterArguments =>
                /\ DOMAIN toolCall.variables.o = {}
                /\ DOMAIN toolCall.sent.o = {}
        /\ (/\ toolPc = "returned"
            /\ ~(toolCall.upstream.hasErrors /\ Len(toolCall.upstream.errors) > 0)) =>
                /\ ~toolResult.threw
                /\ ~toolResult.isError
                /\ toolCall.upstream.data = "withPath" =>
                        /\ toolResult.text[1] = "json"
                        /\ toolResult.text[2] = Page
                        /\ toolResult.text[2] =
                                ResponseData(ResultPath("partner", toolCall.tool), "withPath")
                                    .o[ResultPath("partner", toolCall.tool)[1]]
                /\ toolCall.upstream.data = "undefined" => toolResult.text = <<"json", Null>>

\* list_individuals was called with two empty filter lists, sent no
\* variables, and returned the page the upstream answered with
C24_Witness ==
    /\ toolPc = "returned"
    /\ toolCall.endpointType = "partner"
    /\ toolCall.tool = "list_individuals"
    /\ DOMAIN toolCall.args = {"ids", "statuses"}
    /\ NoFilterArguments
    /\ DOMAIN toolCall.sent.o = {}
    /\ toolCall.upstream.hasErrors
    /\ toolCall.upstream.errors = <<>>
    /\ toolCall.upstream.data = "withPath"
    /\ toolResult.text = <<"json", Page>>


---------------------------------------------------------------------------
\* C25: in every state between two handler runs the transport map, the token
\* map, the auth-method map and the endpoint-type map hold exactly the same
\* session ids, and so the total the health endpoint reports is the sum of
\* the partner and manager counts it reports.
C25_MapsShareTheirSessionIds ==
    /\ DOMAIN sessionTokens = DOMAIN transports
    /\ DOMAIN sessionAuthMethods = DOMAIN transports
    /\ DOMAIN sessionEndpointTypes = DOMAIN transports
    /\ Health.sessions.total = Health.sessions.partner + Health.sessions.manager

\* two sessions were registered and one of them was removed again: the
\* health endpoint counts the one that is left
C25_Witness ==
    /\ Cardinality(IdsGiven) = 2
    /\ Cardinality(DOMAIN transports) = 1
    /\ Health.sessions.total = 1
    /\ \E sid \in DOMAIN transports : sessionEndpointTypes[sid] = "manager"

---------------------------------------------------------------------------
\* the step is the hand-over from the buffering listener to the transport
HandOver == stdioPc = "authenticating" /\ stdioPc' = "ready"

---------------------------------------------------------------------------
\* the step is the arrival of a DELETE for a session, on the session's own
\* endpoint, while another handler awaits the close() of that session's
\* transport
OverlappingDelete ==
    /\ nReq' = nReq + 1
    /\ cur'.method = "DELETE"
    /\ \E s \in Slots :
          /\ handler[s].pc = "closing"
          /\ handler[s].sessionId = cur'.sessionId
          /\ handler[s].endpointType = cur'.endpointType

\* close() has been called at most once on every transport
ClosedAtMostOnce == \A t \in DOMAIN transportObjs : transportObjs[t].closeCalls <= 1

---------------------------------------------------------------------------
\* the handler of slot s bears the id of a session registered on the
\* endpoint the request came to
OnOwnSession(s) ==
    /\ handler[s].method = "POST"
    /\ handler[s].sessionId \in DOMAIN transports
    /\ EndpointTypeOf(handler[s].sessionId) = handler[s].endpointType

\* C28: a POST that bears the id of a session registered on its endpoint is
\* admitted on its own credential alone, whether or not it is the session's:
\* once its authentication has succeeded (at once, or when its exchange call
\* has), it is handed to the session's transport, the registry staying as it
\* was; and when the transport has handled it, a tools/call has gone upstream
\* with the token the session was opened with, not with the request's own.
C28_FollowUpAdmittedOnOwnCredential ==
    [][/\ (FollowUpArrives /\ ~cur'.authError /\ cur'.pc # "fetching") =>
            /\ cur'.pc = "handling"
            /\ cur'.dispatched = transports[cur'.sessionId]
            /\ UNCHANGED Registry
       /\ \A s \in Slots :
            (/\ handler[s].pc = "fetching"
             /\ handler'[s].pc # "fetching"
             /\ OnOwnSession(s)
             /\ ~cur'.authError)
            => /\ handler'[s].pc = "handling"
               /\ handler'[s].transport = transports[handler[s].sessionId]
               /\ cur'.dispatched = transports[handler[s].sessionId]
               /\ UNCHANGED Registry
       /\ \A s \in Slots :
            (/\ handler[s].pc = "handling"
             /\ handler'[s].pc # "handling"
             /\ OnOwnSession(s)
             /\ cur'.status = 200)
            => /\ cur'.dispatched = transports[handler[s].sessionId]
               /\ handler[s].body = "tools/call" =>
                    /\ cur'.graphqlToken = sessionTokens[handler[s].sessionId]
                    /\ handler[s].token # sessionTokens[handler[s].sessionId] =>
                            cur'.graphqlToken # handler[s].token
               /\ UNCHANGED Registry]_vars

\* a session opened with keyA has handled a tools/call that authenticated
\* with keyB, and the call went upstream with keyA's token
C28_Witness ==
    /\ cur.method = "POST"
    /\ cur.body = "tools/call"
    /\ cur.apiKey = "keyB"
    /\ cur.status = 200
    /\ cur.sessionId \in DOMAIN sessionTokens
    /\ sessionTokens[cur.sessionId] = IdToken("keyA", 0)
    /\ cur.dispatched = transports[cur.sessionId]
    /\ cur.graphqlToken = IdToken("keyA", 0)

---------------------------------------------------------------------------
\* the step is the arrival of a GET or a DELETE
StreamOrTerminateArrives ==
    /\ nReq' = nReq + 1
    /\ cur'.method \in {"GET", "DELETE"}

\* the request without any credential header
NoCredential == [apiKey |-> NoKey, authorization |-> NoAuthorization]

---------------------------------------------------------------------------
\* what the four maps hold for a session
EntriesOf(sid) ==
    <<transports[sid], sessionTokens[sid], sessionAuthMethods[sid], sessionEndpointTypes[sid]>>

====
